---- MODULE Spec2Model ----
(***************************************************************************)
(* A model of the resumable, hash-verified, parallel downloader of         *)
(* src/Ovi_Pro_v8/Download_Models.py (class RobustDownloader).             *)
(*                                                                         *)
(* Bytes are small integers.  The remote file of length n holds the bytes  *)
(* 1, 2, ..., n, so that every byte of it is distinct and any reordering,  *)
(* duplication or loss of bytes is visible in a file's content; the byte 0 *)
(* stands for data that does not come from the remote file.                *)
(*                                                                         *)
(* Sizes are scaled: the source moves files of many MiB with 16            *)
(* connections; the model moves files of a few bytes with                  *)
(* num_connections connections.  The thresholds of the source (10 MiB for  *)
(* the parallel path, 1 KB for a "non-trivial" local file, 1 GB for the    *)
(* optimized merge, the 10 MB stream buffer) keep their order relative to  *)
(* the file sizes and to each other.  Time is counted in ticks of half a   *)
(* second.  A SHA-256 digest is modelled as collision-free.                *)
(*                                                                         *)
(* The specifications share the variables:                                 *)
(*   SpecChunk     one call of download_chunk                              *)
(*   SpecChunkFair the same, with a worker thread that keeps running       *)
(*   SpecMerge     one call of merge_chunks / merge_chunks_optimized       *)
(*   SpecParallel  one call of download_parallel, its workers and merge    *)
(*   SpecResume    either of the two: download_chunk or download_parallel  *)
(*   Spec          successive calls of download_file on one file           *)
(*   SpecCache     the same, with the local file changed between calls     *)
(*   SpecLocal     the same, with any local file and an empty remote file   *)
(*   SpecRestore   the same, with the local file changed and put back       *)
(*   SpecUnknown   one call of download_unknown_size                        *)
(*   SpecPlan      the chunk plan of download_parallel                     *)
(*   SpecBatch     download_models, the loop over the files of a model     *)
(*   SpecConsole   the console calls of the coordinator and the workers    *)
(*   SpecUi        the download map of src/ui/model_downloader.py          *)
(*   SpecBundle    a bundle download of src/ui/model_downloader.py         *)
(*   SpecHash      download_file, with the remote file replaced once       *)
(*   SpecDisk      download_file, with cache files that may not be written *)
(*   SpecParallelFair download_parallel with threads that keep running     *)
(*   SpecRename    download_file_with_rename                               *)
(* The environment injects a bounded number of faults: a request that is   *)
(* refused, a stream that raises, a stream that ends early without an      *)
(* error, an I/O error during the merge, a directory that cannot be made,  *)
(* a file that cannot be deleted.                                          *)
(***************************************************************************)
EXTENDS Integers, Sequences, FiniteSets, TLC

\* ------------------------------------------------------------- constants
\* DOWNLOAD_CONFIG (num_connections and chunk_size scaled; max_retries is the
\* value download_chunk is explored with on its own, the explorations of whole
\* downloads configure a smaller one, see the bounds)
num_connections == 2
\* bytes written per iteration of response.iter_content (10 MB in the source)
chunk_size == 1
max_retries == 5
\* seconds before the second attempt, and the longest wait between attempts
retry_delay == 2
max_retry_delay == 30

\* "if file_size > 10 * 1024 * 1024" (scaled; like the source's threshold it
\* is at least num_connections, so a parallel download never plans an empty range)
PARALLEL_THRESHOLD == 2

\* merge_chunks: "if total_size > 1024 * 1024 * 1024" (scaled)
MERGE_THRESHOLD == 4
\* merge_chunks: buffer_size = 64 * 1024 * 1024 (scaled)
buffer_size == 2

\* ---------------------------------------------------------------- bounds
\* the longest remote file
MaxFileSize == 5
\* how many faults (failed requests, cut streams, short reads) the host and
\* the network inject into one download_chunk exploration
ChunkFaults == 5
\* faults injected into one download_unknown_size call
UnknownFaults == 5
\* the longest chunk file handed to one merge_chunks exploration
MaxChunkLen == 3
\* how many I/O errors the file system raises in one merge_chunks exploration
MergeFaults == 1
\* how many faults the environment injects into one download_parallel
\* exploration, and the max_retries its downloader is configured with (a
\* chunk fails for good after that many failed attempts)
ParallelFaults == 2
ParallelRetries == 2
\* how many faults the environment injects into one exploration of
\* download_file calls, and how many calls are made
FileFaults == 1
MaxCalls == 2
\* the chunk plan is computed for files of up to MaxPlanSize bytes and for up
\* to MaxConnections connections
\* the clock of the explorations in which the local file is changed between
\* two download_file calls stops at MaxClock ticks
MaxClock == 4
\* download_models is explored with up to MaxFiles files in the repository
MaxFiles == 3
\* a progress line has 1 to MaxLineLen characters
MaxLineLen == 3
\* the ModelDownloader is explored with MaxIds download ids of each kind and
\* MaxThreads background threads
MaxIds == 1
MaxThreads == 2
\* a bundle has 1 to MaxModels models
MaxModels == 2
MaxPlanSize == 12
\* download_chunk is also explored with a downloader built with this smaller
\* max_retry_delay, which the exponential delays do reach
ShortestCap == 5
MaxConnections == 4

\* ---------------------------------------------------------------- values
Chunks == 0 .. (num_connections - 1)

Min(a, b) == IF a < b THEN a ELSE b

\* self.config, as far as download_chunk reads it
Config(retries, longest) ==
    [max_retries |-> retries, retry_delay |-> retry_delay,
     max_retry_delay |-> longest]

\* a path of the file system: absent, or a file holding data
NoFile == [exists |-> FALSE, data |-> << >>]
File(d) == [exists |-> TRUE, data |-> d]
\* os.path.getsize
getsize(f) == Len(f.data)
\* the destination path also carries the modification time of its file
NoDest == [exists |-> FALSE, data |-> << >>, mtime |-> 0]
DestFile(d, t) == [exists |-> TRUE, data |-> d, mtime |-> t]

VARIABLES
    \* the host
    remote_len,      \* length of the remote file
    host_range,      \* TRUE: the host answers a Range request with 206 and that
                     \* range; FALSE: it ignores Range and answers 200 with the
                     \* whole file
    now,             \* time.time(), in ticks of half a second
    config,          \* self.config: the entry max_retries the downloader was built
                     \* with (the other entries are the constants above)
    probe,           \* what the host tells get_file_size: "size" (a content
                     \* length), "chunked" (no length, chunked transfer) or
                     \* "none" (no usable answer)
    etag,            \* TRUE: the metadata of the file carries its SHA-256
    faults,          \* faults the environment may still inject
    net,             \* net.sha, net.size, net.data: a hash lookup, a size probe,
                     \* a data request has gone to the network since the
                     \* current download_file call began
    \* download_parallel / download_chunk
    file_size,       \* the size handed to download_parallel
    part,            \* part[i]: the chunk file "<filepath>.part<i>"
    wpc,             \* wpc[i]: where the worker of chunk i is in download_chunk
    attempt,         \* attempt[i]: loop variable of "for attempt in range(max_retries)"
    resume_pos,      \* resume_pos[i]
    downloaded,      \* downloaded[i]
    body,            \* body[i]: what the open response has not delivered yet
    wresult,         \* wresult[i]: "none", or download_chunk's return value
    chunk_progress,  \* chunk_progress[i], written by update_progress
    requests,        \* requests[i]: how many times download_chunk(i) has called
                     \* session.get
    slept,           \* slept[i]: the delays download_chunk(i) has handed to
                     \* time.sleep, in seconds, in order
    \* history of the run, read by the properties only
    entry_size,      \* size of part[i] when download_chunk was entered (-1: absent)
    first_req,       \* first request download_chunk(i) sent and how it opened the file
    last_req,        \* latest such request
    heal,            \* "pending": part[i] was found too large and deleted, no request
                     \* since; "restarted": the attempt after that is running
    healed,          \* part[i] was found too large and deleted during this call
    checked,         \* download_chunk compared part[i]'s size with the planned
                     \* size (on entry, after a stream) and has not opened it since
    \* merge_chunks / merge_chunks_optimized
    dest,            \* the file at filepath
    tmp,             \* the file at "<filepath>.tmp"
    mpc,             \* where merge_chunks is
    chunk_files,     \* chunk_files[i]: the size recorded for chunk i by the scan
    m_idx,           \* index of the chunk being copied
    bytes_copied,    \* bytes_copied of the chunk being copied
    mresult,         \* "none", or merge_chunks' return value
    \* history
    dest0,           \* the destination when merge_chunks was entered
    part0,           \* the chunk files when merge_chunks was entered
    \* download_parallel
    ppc,             \* where download_parallel is
    futures,         \* chunk ids of the futures not yet collected
    failed_chunks,   \* chunk ids collected with a result other than True
    presult,         \* "none", or download_parallel's return value
    \* history
    pdest0,          \* the destination when download_parallel was entered
    merge_calls,     \* calls of merge_chunks made by this download_parallel
    submitted,       \* the chunk ids handed to executor.submit, in the order
                     \* of the calls (the values of the dict futures)
    \* download_parallel: the chunk plan
    num_chunks,      \* num_chunks
    chunks,          \* the list chunks of (chunk id, start, end)
    \* download_file
    fpc,             \* where download_file is
    expected_sha,    \* expected_sha (Optional[str])
    size_probe,      \* the local file_size of download_file (Optional[int])
    sha_cache,       \* self.sha_cache[cache_key] (Optional[str])
    verified_cache,  \* self.verified_cache[cache_key] (Optional[dict])
    sha_cache_file,  \* what the file sha256_cache.json holds
    verified_cache_file, \* what the file verified_files_cache.json holds
    verified_cache_renamed, \* self.verified_cache[repo_id/local_filename],
                     \* when local_filename is not the remote filename
    \* history
    returned,        \* how the download_file calls made so far ended: "true",
                     \* "false", or "raised" (an exception left the call)
    path,            \* what the current call did: "skip", "parallel", "single",
                     \* "unknown", "no_size", "raised"
    fdest0,          \* the destination when the current call began
    fcache0,         \* self.verified_cache's entry for the file, then
    fverified0,      \* is_file_verified for it and the expected hash, then
    faults0,         \* faults when the current call began
    \* download_single
    spc,             \* where download_single is
    s_attempt,       \* attempt
    s_resume_pos,    \* resume_pos
    s_body,          \* what the open response has not delivered yet
    sresult,         \* "none", or download_single's return value
    \* download_unknown_size
    upc,             \* where download_unknown_size is
    u_attempt,       \* attempt
    u_body,          \* what the open response has not delivered yet
    uresult,         \* "none", or download_unknown_size's return value
    \* history
    u_requests,      \* how many times download_unknown_size has called
                     \* session.get
    u_slept,         \* the delays it has handed to time.sleep, in seconds
    \* download_models
    files,           \* the file names scan_repo_files returned
    local,           \* local[f]: what is at the local path of file f: "absent"
                     \* (or at most 1 KiB), "good" (a file with the expected
                     \* hash, if there is one), "bad" (a file with another hash)
    has_sha,         \* has_sha[f]: get_file_sha256 finds a hash for f
    bpc,             \* where download_models is
    scanned,         \* how many entries of files the first loop has handled
    to_download,     \* to_download
    skipped,         \* skipped
    successful,      \* successful
    failed,          \* failed
    \* history
    attempted,       \* the files download_file_with_rename was called for, in
                     \* call order
    \* the console
    progress_lock,   \* self._progress_lock: Free, or the thread that holds it
    active_progress, \* self._active_progress
    last_progress_len, \* self._last_progress_len
    cstep,           \* the console call the coordinator thread comes to next
    tpc,             \* tpc[w]: where the worker thread of chunk w is
    in_call,         \* in_call[t]: thread t is inside a console call
    writing,         \* the threads that are writing to sys.stdout
    stdout,          \* what the console call that ended last wrote to
                     \* sys.stdout, in order
    \* ModelDownloader (src/ui/model_downloader.py)
    downloads,       \* self.downloads: the entry of each download id
    download_lock,   \* self.download_lock: NoThread, or the thread inside a
                     \* "with self.download_lock" block of several statements
    threads,         \* threads[t]: the download id a background thread works
                     \* for, and where the thread is
    polled,          \* the download ids of the map get_all_downloads returned
                     \* last
    \* history
    set_error,       \* set_error[id]: a worker has set the status of the
                     \* entry of id to "error"
    bundle,          \* the bundle handed to download_bundle or
                     \* download_civitai_bundle: its source and its models
    bundle_downloads, \* self.bundle_downloads[bundle_download_id]
    bundle_worker,   \* the thread of the bundle: where it is, its loop
                     \* index, download_id and wait_time
    \* history of the local file
    local_filename,  \* the name the file is saved under: the remote
                     \* filename (download_file), or the local_filename
                     \* handed to download_file_with_rename
    disk,            \* how writing a cache file ends: "ok", "denied" (the
                     \* file cannot be opened for writing) or "full" (the
                     \* file is opened, the write fails)
    disagreed        \* the verification records that the local file has
                     \* disagreed with, in size or modification time, at some
                     \* time since they were written

workerVars == <<wpc, attempt, resume_pos, downloaded, body, wresult,
                chunk_progress, entry_size, first_req, last_req, heal, healed,
                checked, requests, slept>>
mergeVars == <<dest, tmp, mpc, chunk_files, m_idx, bytes_copied, mresult,
               dest0, part0>>
parallelVars == <<ppc, futures, failed_chunks, presult, pdest0, merge_calls,
                  submitted>>
hostVars == <<remote_len, host_range, now, config, probe, etag>>
planVars == <<num_chunks, chunks>>
\* what the downloads leave alone: the host, and the variables that only the
\* specification of their own component changes
batchVars == <<files, local, has_sha, bpc, scanned, to_download, skipped,
               successful, failed, attempted>>
consoleVars == <<progress_lock, active_progress, last_progress_len, cstep, tpc,
                 in_call, writing, stdout>>
uiVars == <<downloads, download_lock, threads, polled, set_error>>
historyVars == <<disagreed>>
diskVars == <<disk>>
nameVars == <<local_filename>>
bundleVars == <<bundle, bundle_downloads, bundle_worker>>
quietVars == <<hostVars, planVars, batchVars, consoleVars, uiVars, historyVars,
               diskVars, nameVars, bundleVars>>
fileLocals == <<fpc, expected_sha, size_probe, sha_cache, sha_cache_file,
                returned, path,
                fdest0, fcache0, fverified0, faults0>>
fileVars == <<fileLocals, verified_cache, verified_cache_file,
              verified_cache_renamed>>
singleVars == <<spc, s_attempt, s_resume_pos, s_body, sresult>>
unknownVars == <<upc, u_attempt, u_body, uresult, u_requests, u_slept>>
\* what no worker, no merge and no step of download_parallel touches
calmVars == <<quietVars, fileVars, singleVars, unknownVars>>
\* what no step of download_chunk touches
notChunkVars == <<mergeVars, parallelVars>>
vars == <<bundle, bundle_downloads, bundle_worker, disagreed, local_filename, verified_cache_renamed, disk, sha_cache_file, verified_cache_file, remote_len, host_range, now, config, probe, etag, net, fpc,
          expected_sha, size_probe, sha_cache, verified_cache, returned, path,
          fdest0, fcache0, fverified0, faults0, spc, s_attempt, s_resume_pos, s_body, sresult, upc,
          u_attempt, u_body, uresult, u_requests, u_slept, faults, file_size,
          part, wpc, attempt,
          resume_pos, downloaded, body, wresult, chunk_progress, entry_size,
          first_req, last_req, heal, healed, checked, dest, tmp, mpc,
          chunk_files, m_idx, bytes_copied, mresult, dest0, part0, ppc,
          futures, failed_chunks, presult, pdest0, merge_calls, submitted,
          num_chunks,
          chunks, requests, slept, files, local, has_sha, bpc, scanned,
          to_download, skipped, successful, failed, attempted, progress_lock,
          active_progress, last_progress_len, cstep, tpc, in_call, writing,
          stdout, downloads, download_lock, threads, polled, set_error>>

\* ------------------------------------------------------------- the host
Remote == [p \in 1 .. remote_len |-> p]
\* bytes first..last (0-based, inclusive) of the remote file
RangeBytes(first, last) == SubSeq(Remote, first + 1, Min(last, remote_len - 1) + 1)
\* the body of the answer to "Range: bytes=first-last"
ResponseBody(first, last) == IF host_range THEN RangeBytes(first, last) ELSE Remote

\* ------------------------------------------------- download_parallel: plan
base_chunk_size == file_size \div num_connections
chunk_start(i) == i * base_chunk_size
\* chunk_end without the rule that the last chunk takes the remainder
chunk_end_without_remainder(i) == (i + 1) * base_chunk_size - 1
chunk_end(i) ==
    IF i = num_connections - 1 THEN file_size - 1
    ELSE (i + 1) * base_chunk_size - 1
\* download_chunk: chunk_size_expected = end - start + 1
chunk_size_expected(i) == chunk_end(i) - chunk_start(i) + 1
\* what chunk i is meant to hold
ChunkBytes(i) == RangeBytes(chunk_start(i), chunk_end(i))

\* ---------------------------------------------------------- download_chunk
NoReq == [start |-> -1, mode |-> "none", had |-> -1]

\* lines 466-474: the resume position chosen on entry for a chunk file of
\* size `existing` (-1: no file)
EntryResumePos(existing, expected) ==
    IF existing < 0 THEN 0
    ELSE IF existing > expected THEN 0
    ELSE existing

\* lines 466-468: is the chunk file found on entry deleted
EntryDeletes(existing, expected) == existing > expected

\* line 481: actual_start = start + resume_pos
actual_start(start, rpos) == start + rpos

\* line 492: mode = 'ab' if resume_pos > 0 else 'wb'
open_mode(rpos) == IF rpos > 0 THEN "ab" ELSE "wb"

\* open(chunk_file, mode): 'wb' truncates, 'ab' keeps what is there
OpenFile(f, mode) == IF mode = "ab" /\ f.exists THEN f ELSE File(<< >>)

\* FinalVerdict without its last branch: a chunk file larger than planned
\* counts as incomplete and is kept
FinalVerdict_keeps_too_large(final_size, expected) ==
    IF final_size = expected THEN "complete" ELSE "incomplete"

\* lines 504-517: the verdict on the size found after the stream ended
FinalVerdict(final_size, expected) ==
    IF final_size = expected THEN "complete"
    ELSE IF final_size < expected THEN "incomplete"
    ELSE "too_large"

\* lines 521-522: the delay before the attempt that follows attempt a
delay_without_backoff(a) == Min(config.retry_delay, config.max_retry_delay)

delay(a) == Min(config.retry_delay * (2 ^ a), config.max_retry_delay)

\* lines 519-526: the except block. Another attempt after the sleep, or the
\* failure of the chunk
Retry(i) ==
    IF attempt[i] < config.max_retries - 1
    THEN /\ slept' = [slept EXCEPT ![i] = Append(@, delay(attempt[i]))]
         /\ attempt' = [attempt EXCEPT ![i] = @ + 1]
         /\ wpc' = [wpc EXCEPT ![i] = "request"]
         /\ wresult' = wresult
    ELSE /\ attempt' = attempt
         /\ slept' = slept
         /\ wpc' = [wpc EXCEPT ![i] = "done"]
         /\ wresult' = [wresult EXCEPT ![i] = "false"]

\* download_chunk_entry without the early return of lines 462-465: a chunk
\* file of the planned size is resumed like a partial one
download_chunk_entry_resumes_complete(i) ==
    /\ wpc[i] = "entry"
    /\ LET expected == chunk_size_expected(i)
           existing == IF part[i].exists THEN getsize(part[i]) ELSE -1
       IN /\ entry_size' = [entry_size EXCEPT ![i] = existing]
          /\ checked' = [checked EXCEPT ![i] = TRUE]
          /\ part' = [part EXCEPT ![i] =
                          IF EntryDeletes(existing, expected) THEN NoFile ELSE @]
          /\ resume_pos' = [resume_pos EXCEPT ![i] =
                                EntryResumePos(existing, expected)]
          /\ heal' = [heal EXCEPT ![i] =
                          IF existing > expected THEN "pending" ELSE @]
          /\ healed' = [healed EXCEPT ![i] = @ \/ existing > expected]
          /\ wpc' = [wpc EXCEPT ![i] = "request"]
          /\ UNCHANGED <<chunk_progress, wresult>>
    /\ UNCHANGED notChunkVars
    /\ UNCHANGED <<calmVars, net, faults, file_size, attempt, downloaded, body,
                   first_req, last_req, requests, slept>>

\* lines 459-474
download_chunk_entry(i) ==
    /\ wpc[i] = "entry"
    /\ LET expected == chunk_size_expected(i)
           existing == IF part[i].exists THEN getsize(part[i]) ELSE -1
       IN /\ entry_size' = [entry_size EXCEPT ![i] = existing]
          /\ checked' = [checked EXCEPT ![i] = TRUE]
          /\ IF existing = expected
             THEN /\ chunk_progress' = [chunk_progress EXCEPT ![i] = expected]
                  /\ wresult' = [wresult EXCEPT ![i] = "true"]
                  /\ wpc' = [wpc EXCEPT ![i] = "done"]
                  /\ UNCHANGED <<part, resume_pos, heal, healed>>
             ELSE /\ part' = [part EXCEPT ![i] =
                                 IF EntryDeletes(existing, expected) THEN NoFile ELSE @]
                  /\ resume_pos' = [resume_pos EXCEPT ![i] =
                                       EntryResumePos(existing, expected)]
                  /\ heal' = [heal EXCEPT ![i] =
                                 IF existing > expected THEN "pending" ELSE @]
                  /\ healed' = [healed EXCEPT ![i] = @ \/ existing > expected]
                  /\ wpc' = [wpc EXCEPT ![i] = "request"]
                  /\ UNCHANGED <<chunk_progress, wresult>>
    /\ UNCHANGED notChunkVars
    /\ UNCHANGED <<calmVars, net, faults, file_size, attempt, downloaded, body,
                   first_req, last_req, requests, slept>>

\* lines 480-495: the request is answered with 200 or 206 and the chunk file is
\* opened
download_chunk_request(i) ==
    /\ wpc[i] = "request"
    /\ LET from == actual_start(chunk_start(i), resume_pos[i])
           mode == open_mode(resume_pos[i])
           req == [start |-> from, mode |-> mode,
                   had |-> IF part[i].exists THEN getsize(part[i]) ELSE -1]
       IN /\ body' = [body EXCEPT ![i] = ResponseBody(from, chunk_end(i))]
          /\ part' = [part EXCEPT ![i] = OpenFile(@, mode)]
          /\ downloaded' = [downloaded EXCEPT ![i] = resume_pos[i]]
          /\ last_req' = [last_req EXCEPT ![i] = req]
          /\ first_req' = [first_req EXCEPT ![i] = IF @ = NoReq THEN req ELSE @]
    /\ heal' = [heal EXCEPT ![i] = IF @ = "pending" THEN "restarted" ELSE "none"]
    /\ checked' = [checked EXCEPT ![i] = FALSE]
    /\ wpc' = [wpc EXCEPT ![i] = "stream"]
    /\ net' = [net EXCEPT !.data = TRUE]
    /\ requests' = [requests EXCEPT ![i] = @ + 1]
    /\ UNCHANGED notChunkVars
    /\ UNCHANGED <<calmVars, faults, file_size, attempt, resume_pos, wresult,
                   chunk_progress, entry_size, healed, slept>>

\* download_chunk_refused with the chunk file opened before the status is
\* looked at: a refused attempt that starts at 0 truncates the file
download_chunk_refused_after_open(i) ==
    /\ wpc[i] = "request"
    /\ faults > 0
    /\ faults' = faults - 1
    /\ part' = [part EXCEPT ![i] = OpenFile(@, open_mode(resume_pos[i]))]
    /\ Retry(i)
    /\ net' = [net EXCEPT !.data = TRUE]
    /\ requests' = [requests EXCEPT ![i] = @ + 1]
    /\ UNCHANGED notChunkVars
    /\ UNCHANGED <<calmVars, file_size, resume_pos, downloaded, body,
                   chunk_progress, entry_size, first_req, last_req, heal, healed,
                   checked>>

\* lines 484-489: session.get raises (connection error, timeout) or the status
\* is neither 200 nor 206; nothing is written
download_chunk_refused(i) ==
    /\ wpc[i] = "request"
    /\ faults > 0
    /\ faults' = faults - 1
    /\ Retry(i)
    /\ net' = [net EXCEPT !.data = TRUE]
    /\ requests' = [requests EXCEPT ![i] = @ + 1]
    /\ UNCHANGED notChunkVars
    /\ UNCHANGED <<calmVars, file_size, part, resume_pos, downloaded, body,
                   chunk_progress, entry_size, first_req, last_req, heal, healed,
                   checked>>

\* download_chunk_write with a chunk file name that leaves out the chunk id:
\* every worker writes to the same file
download_chunk_write_shared_file(i) ==
    /\ wpc[i] = "stream"
    /\ body[i] # << >>
    /\ LET n == Min(chunk_size, Len(body[i]))
       IN /\ part' = [part EXCEPT ![0] = File(@.data \o SubSeq(body[i], 1, n))]
          /\ body' = [body EXCEPT ![i] = SubSeq(@, n + 1, Len(@))]
          /\ downloaded' = [downloaded EXCEPT ![i] = @ + n]
          /\ chunk_progress' = [chunk_progress EXCEPT ![i] = downloaded[i] + n]
    /\ UNCHANGED notChunkVars
    /\ UNCHANGED <<calmVars, net, faults, file_size, wpc, attempt, resume_pos, wresult,
                   entry_size, first_req, last_req, heal, healed, checked,
                   requests, slept>>

\* lines 496-501: one iteration of the loop over response.iter_content
download_chunk_write(i) ==
    /\ wpc[i] = "stream"
    /\ body[i] # << >>
    /\ LET n == Min(chunk_size, Len(body[i]))
       IN /\ part' = [part EXCEPT ![i] = File(@.data \o SubSeq(body[i], 1, n))]
          /\ body' = [body EXCEPT ![i] = SubSeq(@, n + 1, Len(@))]
          /\ downloaded' = [downloaded EXCEPT ![i] = @ + n]
          /\ chunk_progress' = [chunk_progress EXCEPT ![i] = downloaded[i] + n]
    /\ UNCHANGED notChunkVars
    /\ UNCHANGED <<calmVars, net, faults, file_size, wpc, attempt, resume_pos, wresult,
                   entry_size, first_req, last_req, heal, healed, checked,
                   requests, slept>>

\* lines 496, 519: iter_content raises while the body is being read; resume_pos
\* keeps the value it had when the attempt began
download_chunk_cut(i) ==
    /\ wpc[i] = "stream"
    /\ body[i] # << >>
    /\ faults > 0
    /\ faults' = faults - 1
    /\ body' = [body EXCEPT ![i] = << >>]
    /\ heal' = [heal EXCEPT ![i] = "none"]
    /\ Retry(i)
    /\ UNCHANGED notChunkVars
    /\ UNCHANGED <<calmVars, net, file_size, part, resume_pos, downloaded,
                   chunk_progress, entry_size, first_req, last_req, healed, checked,
                   requests>>

\* lines 503-517, once the stream has ended
FinalCheck(i) ==
    LET expected == chunk_size_expected(i)
        verdict == FinalVerdict(getsize(part[i]), expected)
    IN /\ body' = [body EXCEPT ![i] = << >>]
       /\ checked' = [checked EXCEPT ![i] = TRUE]
       /\ IF verdict = "complete"
          THEN /\ chunk_progress' = [chunk_progress EXCEPT ![i] = expected]
               /\ wresult' = [wresult EXCEPT ![i] = "true"]
               /\ wpc' = [wpc EXCEPT ![i] = "done"]
               /\ UNCHANGED <<part, resume_pos, attempt, heal, healed, slept>>
          ELSE /\ part' = [part EXCEPT ![i] =
                              IF verdict = "too_large" THEN NoFile ELSE @]
               /\ resume_pos' = [resume_pos EXCEPT ![i] =
                                    IF verdict = "too_large" THEN 0
                                    ELSE getsize(part[i])]
               /\ heal' = [heal EXCEPT ![i] =
                              IF verdict = "too_large" THEN "pending" ELSE "none"]
               /\ healed' = [healed EXCEPT ![i] = @ \/ verdict = "too_large"]
               /\ Retry(i)
               /\ UNCHANGED chunk_progress

\* the response delivered all of its body
download_chunk_end(i) ==
    /\ wpc[i] = "stream"
    /\ body[i] = << >>
    /\ FinalCheck(i)
    /\ UNCHANGED notChunkVars
    /\ UNCHANGED <<calmVars, net, faults, file_size, downloaded, entry_size,
                   first_req, last_req, requests>>

\* the response ends early without an error (the connection is closed cleanly
\* before the whole body was sent): the case of line 509
download_chunk_short(i) ==
    /\ wpc[i] = "stream"
    /\ body[i] # << >>
    /\ faults > 0
    /\ faults' = faults - 1
    /\ FinalCheck(i)
    /\ UNCHANGED notChunkVars
    /\ UNCHANGED <<calmVars, net, file_size, downloaded, entry_size, first_req, last_req,
                   requests>>

\* ------------------------------------------------------ one download_chunk
\* What a chunk file can hold when download_chunk is entered: nothing, a
\* prefix of its range (an earlier run that was stopped), its whole range, or
\* more than its range
EntryFiles(i) ==
    {NoFile}
    \cup {File(SubSeq(ChunkBytes(i), 1, k)) : k \in 0 .. chunk_size_expected(i)}
    \cup {File(ChunkBytes(i) \o <<0>>)}

\* an Optional value: None, or a value that is there
None == << >>
Some(x) == <<x>>
\* Python's truth value of an Optional[int]: None and 0 are false
Truthy(o) == o # None /\ o[1] # 0

\* hashlib.sha256(...).hexdigest(): distinct contents have distinct digests
Sha256(d) == <<"sha256", d>>

\* verify_file_sha256 without the comparison
verify_file_sha256_accepts(f, sha) == TRUE
\* lines 438-445 of verify_file_sha256, for an expected_sha that is there
verify_file_sha256(f, sha) == Sha256(f.data) = sha[1]

\* line 216: the tolerance of one second, in ticks of half a second
MTIME_TOLERANCE == 2
Abs(x) == IF x < 0 THEN -x ELSE x

is_file_verified_by_size(cache, f, sha) ==
    /\ sha # None
    /\ cache # None
    /\ f.exists
    /\ cache[1].sha256 = sha[1]
    /\ cache[1].size = getsize(f)

\* lines 195-216
is_file_verified(cache, f, sha) ==
    /\ sha # None
    /\ cache # None
    /\ f.exists
    /\ cache[1].sha256 = sha[1]
    /\ cache[1].size = getsize(f)
    /\ Abs(cache[1].mtime - f.mtime) < MTIME_TOLERANCE

\* lines 218-238: the entry self.verified_cache[cache_key] afterwards
mark_file_verified(cache, f, sha) ==
    IF f.exists
    THEN Some([sha256 |-> sha[1], size |-> getsize(f), mtime |-> f.mtime])
    ELSE cache

\* nothing has gone to the network
NoNet == [sha |-> FALSE, size |-> FALSE, data |-> FALSE]

\* download_single has not been called
IdleSingle ==
    /\ spc = "idle"
    /\ s_attempt = 0
    /\ s_resume_pos = 0
    /\ s_body = << >>
    /\ sresult = "none"

\* download_unknown_size has not been called
IdleUnknown ==
    /\ upc = "idle"
    /\ u_attempt = 0
    /\ u_body = << >>
    /\ uresult = "none"
    /\ u_requests = 0
    /\ u_slept = << >>

\* download_file has not been called, nothing is recorded as verified
IdleFile ==
    /\ fpc = "idle"
    /\ net = NoNet
    /\ expected_sha = None
    /\ size_probe = None
    /\ verified_cache = None
    /\ returned = << >>
    /\ path = "none"
    /\ fdest0 = NoDest
    /\ fcache0 = None
    /\ fverified0 = FALSE
    /\ faults0 = faults
    /\ IdleSingle
    /\ IdleUnknown

\* the chunk plan is not being computed
IdlePlan ==
    /\ num_chunks = num_connections
    /\ chunks = << >>

\* download_models has not been called
IdleBatch ==
    /\ files = << >>
    /\ local = << >>
    /\ has_sha = << >>
    /\ bpc = "idle"
    /\ scanned = 0
    /\ to_download = << >>
    /\ skipped = << >>
    /\ successful = 0
    /\ failed = 0
    /\ attempted = << >>

\* the threads of one download: a worker for each chunk, and the coordinator
\* (the thread that called download_file)
Main == num_connections
Threads == Chunks \cup {Main}
\* threading.Lock(), not held
Free == -1

\* lines 72-75: the console state a new downloader has; no download runs
IdleConsole ==
    /\ progress_lock = Free
    /\ active_progress = FALSE
    /\ last_progress_len = 0
    /\ cstep = 1
    /\ tpc = [w \in Chunks |-> "idle"]
    /\ in_call = [t \in Threads |-> FALSE]
    /\ writing = {}
    /\ stdout = << >>

\* download ids: those download_model makes and those download_civitai_model
\* makes (the latter begin with "civitai_")
HfIds == 1 .. MaxIds
CivitaiIds == (MaxIds + 1) .. (2 * MaxIds)
\* the download id made for model i of a bundle: by download_model (source
\* "hf") or by download_civitai_model (source "civitai")
ModelId(source, i) ==
    2 * MaxIds + (IF source = "hf" THEN 0 ELSE MaxModels) + i
ModelIds(source) == {ModelId(source, i) : i \in 1 .. MaxModels}
DownloadIds == HfIds \cup CivitaiIds \cup ModelIds("hf") \cup ModelIds("civitai")
BackgroundThreads == 1 .. MaxThreads
NoThread == 0
\* download_id not in self.downloads
NoEntry == [status |-> "absent", progress |-> 0, error |-> None]
NotStarted == [id |-> 0, pc |-> "none"]

\* src/ui/model_downloader.py, lines 59-60: a new ModelDownloader
IdleUi ==
    /\ downloads = [id \in DownloadIds |-> NoEntry]
    /\ download_lock = NoThread
    /\ threads = [t \in BackgroundThreads |-> NotStarted]
    /\ polled = {}
    /\ set_error = [id \in DownloadIds |-> FALSE]

\* bundle_download_id not in self.bundle_downloads
NoBundle == [status |-> "absent", total_models |-> 0, completed_models |-> 0,
             failed_models |-> 0, current_model |-> None]
\* no bundle download has been asked for
IdleBundle ==
    /\ bundle = [source |-> "hf", models |-> << >>]
    /\ bundle_downloads = NoBundle
    /\ bundle_worker = [pc |-> "none", i |-> 0, download_id |-> 0,
                        wait_time |-> 0]

\* the components a specification does not explore are at rest
\* the local file has not been changed by another program
IdleHistory == disagreed = {}

\* json.dump(mapping, f) and json.load(f): the text of a cache file that was
\* written completely, and the mapping read from a file
json_dump(mapping) == <<"json", mapping>>
Truncated == <<"truncated">>
json_load(text) == IF text = Truncated THEN None ELSE text[2]

\* lines 60 and 64: the caches are what load_sha_cache and load_verified_cache
\* read from the cache files at startup; the files can be written
IdleDisk ==
    /\ disk = "ok"
    /\ sha_cache_file = json_dump(sha_cache)
    /\ verified_cache_file = json_dump(verified_cache)

\* lines 167-173: the file after save_sha_cache. open(..., 'w') empties the
\* file before json.dump writes; a failure is logged and not raised
save_sha_cache(mapping, text) ==
    IF disk = "ok" THEN json_dump(mapping)
    ELSE IF disk = "denied" THEN text
    ELSE Truncated

\* the remote filename, and the names a file can be saved under
remote_filename == "model.safetensors"
LocalNames == {remote_filename, "renamed.safetensors"}

\* the file is saved under its remote name; no record is kept under any
\* other name
IdleNames ==
    /\ local_filename = remote_filename
    /\ verified_cache_renamed = None

\* a variant of save_verified_cache that leaves the file for a later write
save_verified_cache_later(mapping, text) == text

\* lines 185-193: the file after save_verified_cache
save_verified_cache(mapping, text) ==
    IF disk = "ok" THEN json_dump(mapping)
    ELSE IF disk = "denied" THEN text
    ELSE Truncated

IdleRest == IdlePlan /\ IdleBatch /\ IdleConsole /\ IdleUi /\ IdleHistory /\ IdleDisk
            /\ IdleNames /\ IdleBundle

\* no worker has started
IdleWorkers(pcs) ==
    /\ wpc = pcs
    /\ attempt = [i \in Chunks |-> 0]
    /\ resume_pos = [i \in Chunks |-> 0]
    /\ downloaded = [i \in Chunks |-> 0]
    /\ body = [i \in Chunks |-> << >>]
    /\ wresult = [i \in Chunks |-> "none"]
    /\ chunk_progress = [i \in Chunks |-> 0]
    /\ requests = [i \in Chunks |-> 0]
    /\ slept = [i \in Chunks |-> << >>]
    /\ entry_size = [i \in Chunks |-> -1]
    /\ first_req = [i \in Chunks |-> NoReq]
    /\ last_req = [i \in Chunks |-> NoReq]
    /\ heal = [i \in Chunks |-> "none"]
    /\ healed = [i \in Chunks |-> FALSE]
    /\ checked = [i \in Chunks |-> FALSE]

\* merge_chunks has not been called
IdleMerge ==
    /\ tmp = NoFile
    /\ mpc = "idle"
    /\ chunk_files = [i \in Chunks |-> 0]
    /\ m_idx = 0
    /\ bytes_copied = 0
    /\ mresult = "none"
    /\ dest0 = NoDest
    /\ part0 = [i \in Chunks |-> NoFile]

\* download_parallel has not been called
IdleParallel ==
    /\ ppc = "idle"
    /\ futures = {}
    /\ failed_chunks = {}
    /\ presult = "none"
    /\ pdest0 = NoDest
    /\ merge_calls = 0
    /\ submitted = << >>

InitChunk ==
    /\ remote_len \in (PARALLEL_THRESHOLD + 1) .. MaxFileSize
    /\ file_size = remote_len
    /\ host_range \in BOOLEAN
    /\ now = 0
    /\ probe = "size"
    /\ etag = FALSE
    /\ config \in {Config(max_retries, max_retry_delay),
                   Config(max_retries, ShortestCap)}
    /\ faults = ChunkFaults
    /\ sha_cache = None
    /\ IdleFile
    /\ IdleRest
    /\ \E c \in Chunks :
          /\ IdleWorkers([i \in Chunks |-> IF i = c THEN "entry" ELSE "idle"])
          /\ part \in [Chunks -> UNION {EntryFiles(i) : i \in Chunks}]
          /\ \A i \in Chunks : part[i] = IF i = c THEN part[c] ELSE NoFile
          /\ part[c] \in EntryFiles(c)
    /\ dest = NoDest
    /\ IdleMerge
    /\ IdleParallel

NextChunk ==
    \E i \in Chunks :
        \/ download_chunk_entry(i)
        \/ download_chunk_request(i)
        \/ download_chunk_refused(i)
        \/ download_chunk_write(i)
        \/ download_chunk_cut(i)
        \/ download_chunk_end(i)
        \/ download_chunk_short(i)

SpecChunk == InitChunk /\ [][NextChunk]_vars

\* download_chunk runs in a thread of its own that is never suspended for good,
\* and every request carries a timeout (line 485), so a step that is possible
\* is taken in the end
SpecChunkFair == SpecChunk /\ WF_vars(NextChunk)

\* ------------------------------------------------ properties of download_chunk
\* download_chunk(i) was entered with a non-empty proper prefix of its range
EnteredPartial(i) == 0 < entry_size[i] /\ entry_size[i] < chunk_size_expected(i)

\* C7 (resume correctness), as claimed: entered with a proper prefix of length
\* k of its range, on a host that honours Range, download_chunk first asks for
\* start+k..end and opens the chunk file for appending, and whenever it returns
\* success the chunk file holds exactly the bytes of the range.
C7_ResumeCorrect ==
    \A i \in Chunks :
        (host_range /\ EnteredPartial(i)) =>
            /\ first_req[i] # NoReq =>
                   /\ first_req[i].start = chunk_start(i) + entry_size[i]
                   /\ first_req[i].mode = "ab"
            /\ wresult[i] = "true" => part[i].data = ChunkBytes(i)

\* C8 (corruption self-heal), as claimed: a chunk file found larger than its
\* range is deleted with the resume position back at 0, the attempt after that
\* asks for the range from its first byte and truncates the file, and on a
\* host that honours Range a success after that leaves exactly the range's
\* bytes in the chunk file.
C8_SelfHeal ==
    \A i \in Chunks :
        /\ heal[i] = "pending" => ~part[i].exists /\ resume_pos[i] = 0
        /\ heal[i] = "restarted" =>
               last_req[i].start = chunk_start(i) /\ last_req[i].mode = "wb"
        /\ (host_range /\ healed[i] /\ wresult[i] = "true") =>
               part[i].data = ChunkBytes(i)

\* C10, as claimed: once download_chunk has looked at a chunk file, the file
\* is never larger than its planned range, not even while a response body is
\* streamed into it.
C10_NeverTooLarge ==
    \A i \in Chunks :
        (wpc[i] \notin {"idle", "entry"} /\ part[i].exists) =>
            getsize(part[i]) <= chunk_size_expected(i)

\* C10, amended: a chunk file may be larger than its planned range while a
\* body is streamed into it and between a cut stream and the next size check,
\* but after every size check of download_chunk (on entry, after a stream has
\* ended) it is at most its planned size, a file found larger has been deleted
\* with the resume position back at 0, and a chunk reported complete has
\* exactly its planned size.
C10_TooLargeIsDiscarded ==
    \A i \in Chunks :
        /\ (checked[i] /\ part[i].exists) =>
               getsize(part[i]) <= chunk_size_expected(i)
        /\ heal[i] = "pending" => ~part[i].exists /\ resume_pos[i] = 0
        /\ wresult[i] = "true" => getsize(part[i]) = chunk_size_expected(i)

\* a chunk file that grew past its range while a body was streamed into it was
\* deleted, downloaded again and completed
C10_Witness ==
    \E i \in Chunks :
        /\ healed[i]
        /\ entry_size[i] <= chunk_size_expected(i)
        /\ wresult[i] = "true"

\* the a-th wait of a chunk (a = 1 is the wait after the first failed attempt)
ExpectedDelay(a) ==
    LET exponential == config.retry_delay * (2 ^ (a - 1))
    IN IF exponential < config.max_retry_delay
       THEN exponential ELSE config.max_retry_delay

RetryBounded ==
    \A i \in Chunks :
        /\ requests[i] <= config.max_retries
        /\ requests[i] <= attempt[i] + 1
        /\ Len(slept[i]) = attempt[i]
        /\ Len(slept[i]) <= config.max_retries - 1
        /\ \A a \in 1 .. Len(slept[i]) : slept[i][a] = ExpectedDelay(a)
        /\ wresult[i] = "false" => requests[i] = config.max_retries
        /\ (wpc[i] = "done" /\ requests[i] = config.max_retries
               /\ ~checked[i]) => wresult[i] = "false"

ChunkReturned == \A i \in Chunks : wpc[i] \in {"idle", "done"}

\* C12: download_chunk sends at most max_retries requests for its chunk; before
\* the attempt that follows failed attempt a it has slept
\* min(retry_delay * 2^a, max_retry_delay) seconds, and it does not sleep after
\* the last attempt; it returns False only when max_retries attempts have
\* failed, and it always returns
C12_RetryPolicy == []RetryBounded /\ <>ChunkReturned

\* all max_retries attempts of a chunk failed, and the later waits were cut
\* down to max_retry_delay
C12_Witness ==
    \E i \in Chunks :
        /\ wresult[i] = "false"
        /\ requests[i] = max_retries
        /\ Len(slept[i]) = max_retries - 1
        /\ slept[i][1] = retry_delay
        /\ slept[i][2] = 2 * retry_delay
        /\ slept[i][max_retries - 1] = config.max_retry_delay
        /\ config.max_retry_delay < retry_delay * (2 ^ (max_retries - 2))

\* ================================================================ merge_chunks
\* what no step of merge_chunks touches
notMergeVars == <<workerVars, parallelVars>>

\* the chunk files in index order, end to end
RECURSIVE Concat(_, _)
Concat(chunk_file, n) ==
    IF n = 0 THEN << >> ELSE Concat(chunk_file, n - 1) \o chunk_file[n - 1].data

\* sum of the sizes recorded by the scan (total_size)
RECURSIVE SumSizes(_, _)
SumSizes(sizes, n) == IF n = 0 THEN 0 ELSE SumSizes(sizes, n - 1) + sizes[n - 1]

\* a read that always starts at the first byte of the file
read_at_start(f, pos, to_read) == SubSeq(f.data, 1, Min(to_read, getsize(f)))

\* infile.read(to_read) with the file position at `pos`
read(f, pos, to_read) == SubSeq(f.data, pos + 1, Min(pos + to_read, getsize(f)))

\* shutil.copyfileobj(infile, outfile): everything the chunk file holds
copyfileobj(f) == f.data

\* lines 538-547: every chunk file must exist; its size is recorded
merge_scan ==
    /\ mpc = "scan"
    /\ IF \E i \in Chunks : ~part[i].exists
       THEN /\ mresult' = "false"
            /\ mpc' = "done"
            /\ UNCHANGED chunk_files
       ELSE /\ chunk_files' = [i \in Chunks |-> getsize(part[i])]
            /\ mpc' = "open"
            /\ UNCHANGED mresult
    /\ UNCHANGED notMergeVars
    /\ UNCHANGED <<calmVars, net, faults, file_size, part, dest, tmp, m_idx,
                   bytes_copied, dest0, part0>>

\* lines 550-560 and 629: the path is chosen by the total size and the
\* temporary file is opened with 'wb'
merge_open ==
    /\ mpc = "open"
    /\ tmp' = File(<< >>)
    /\ m_idx' = 0
    /\ bytes_copied' = 0
    /\ mpc' = IF SumSizes(chunk_files, num_connections) > MERGE_THRESHOLD
              THEN "copy_optimized" ELSE "copy"
    /\ UNCHANGED notMergeVars
    /\ UNCHANGED <<calmVars, net, faults, file_size, part, dest, chunk_files, mresult,
                   dest0, part0>>

\* lines 561-571: one pass of the inner loop of the buffered path, or the step
\* to the next chunk file, or the end of the copy
merge_copy ==
    /\ mpc = "copy"
    /\ IF m_idx = num_connections
       THEN /\ mpc' = "remove"
            /\ UNCHANGED <<tmp, m_idx, bytes_copied>>
       ELSE LET size == chunk_files[m_idx]
                to_read == Min(buffer_size, size - bytes_copied)
                data == read(part[m_idx], bytes_copied, to_read)
            IN IF bytes_copied < size /\ data # << >>
               THEN /\ tmp' = File(tmp.data \o data)
                    /\ bytes_copied' = bytes_copied + Len(data)
                    /\ UNCHANGED <<mpc, m_idx>>
               ELSE /\ m_idx' = m_idx + 1
                    /\ bytes_copied' = 0
                    /\ UNCHANGED <<mpc, tmp>>
    /\ UNCHANGED notMergeVars
    /\ UNCHANGED <<calmVars, net, faults, file_size, part, dest, chunk_files, mresult,
                   dest0, part0>>

\* lines 630-641: merge_chunks_optimized copies one chunk file, or ends
merge_copy_optimized ==
    /\ mpc = "copy_optimized"
    /\ IF m_idx = num_connections
       THEN /\ mpc' = "remove"
            /\ UNCHANGED <<tmp, m_idx>>
       ELSE /\ tmp' = File(tmp.data \o copyfileobj(part[m_idx]))
            /\ m_idx' = m_idx + 1
            /\ UNCHANGED mpc
    /\ UNCHANGED notMergeVars
    /\ UNCHANGED <<calmVars, net, faults, file_size, part, dest, chunk_files,
                   bytes_copied, mresult, dest0, part0>>

\* lines 595-596 and 650-651: if os.path.exists(filepath): os.remove(filepath)
merge_remove ==
    /\ mpc = "remove"
    /\ dest' = NoDest
    /\ mpc' = "rename"
    /\ UNCHANGED notMergeVars
    /\ UNCHANGED <<calmVars, net, faults, file_size, part, tmp, chunk_files, m_idx,
                   bytes_copied, mresult, dest0, part0>>

\* lines 597 and 652: os.rename(temp_file, filepath)
merge_rename ==
    /\ mpc = "rename"
    /\ dest' = DestFile(tmp.data, now)
    /\ tmp' = NoFile
    /\ mpc' = "cleanup"
    /\ UNCHANGED notMergeVars
    /\ UNCHANGED <<calmVars, net, faults, file_size, part, chunk_files, m_idx,
                   bytes_copied, mresult, dest0, part0>>

\* lines 600-606 and 655-661: the chunk files are removed, merge returns True
merge_cleanup ==
    /\ mpc = "cleanup"
    /\ part' = [i \in Chunks |-> NoFile]
    /\ mresult' = "true"
    /\ mpc' = "done"
    /\ UNCHANGED notMergeVars
    /\ UNCHANGED <<calmVars, net, faults, file_size, dest, tmp, chunk_files, m_idx,
                   bytes_copied, dest0, part0>>

\* merge_raise with a handler that does not remove the temporary file
merge_raise_keeps_tmp ==
    /\ mpc \in {"scan", "open", "copy", "copy_optimized", "remove", "rename"}
    /\ faults > 0
    /\ faults' = faults - 1
    /\ mresult' = "false"
    /\ mpc' = "done"
    /\ UNCHANGED notMergeVars
    /\ UNCHANGED <<calmVars, net, file_size, part, dest, tmp, chunk_files, m_idx,
                   bytes_copied, dest0, part0>>

\* lines 608-616 and 663-671: an operation of the try block raises (the scan's
\* getsize, open, read, write, os.remove, os.rename); the handler removes the
\* temporary file if there is one and merge returns False
merge_raise ==
    /\ mpc \in {"scan", "open", "copy", "copy_optimized", "remove", "rename"}
    /\ faults > 0
    /\ faults' = faults - 1
    /\ tmp' = NoFile
    /\ mresult' = "false"
    /\ mpc' = "done"
    /\ UNCHANGED notMergeVars
    /\ UNCHANGED <<calmVars, net, file_size, part, dest, chunk_files, m_idx,
                   bytes_copied, dest0, part0>>

\* ---------------------------------------------------------- one merge_chunks
Bytes01 == {0, 1}
\* every chunk file of at most MaxChunkLen bytes, and a missing one
RECURSIVE SeqsUpTo(_)
SeqsUpTo(n) ==
    IF n = 0 THEN {<< >>}
    ELSE LET shorter == SeqsUpTo(n - 1)
         IN shorter \cup {Append(q, b) : q \in {x \in shorter : Len(x) = n - 1},
                                         b \in Bytes01}
MergeInputs == {NoFile} \cup {File(d) : d \in SeqsUpTo(MaxChunkLen)}

InitMerge ==
    /\ remote_len = 0
    /\ file_size = 0
    /\ host_range = TRUE
    /\ now = 1
    /\ probe = "size"
    /\ etag = FALSE
    /\ config = Config(max_retries, max_retry_delay)
    /\ faults \in 0 .. MergeFaults
    /\ sha_cache = None
    /\ IdleFile
    /\ IdleRest
    /\ IdleWorkers([i \in Chunks |-> "idle"])
    /\ part \in [Chunks -> MergeInputs]
    /\ dest \in {NoDest, DestFile(<<0, 0>>, 0)}
    /\ tmp = NoFile
    /\ mpc = "scan"
    /\ chunk_files = [i \in Chunks |-> 0]
    /\ m_idx = 0
    /\ bytes_copied = 0
    /\ mresult = "none"
    /\ dest0 = dest
    /\ part0 = part
    /\ IdleParallel

NextMerge ==
    \/ merge_scan
    \/ merge_open
    \/ merge_copy
    \/ merge_copy_optimized
    \/ merge_remove
    \/ merge_rename
    \/ merge_cleanup
    \/ merge_raise

SpecMerge == InitMerge /\ [][NextMerge]_vars

\* ------------------------------------------------- properties of merge_chunks
\* C5 (merge correctness): whenever merge_chunks returns True, the file at
\* filepath holds the bytes of .part0 .. .part(N-1), as they were when the
\* merge began, end to end in index order; on the buffered path and on the
\* optimized path alike.
C5_MergeIsConcatenation ==
    mresult = "true" =>
        /\ dest.exists
        /\ dest.data = Concat(part0, num_connections)
        /\ tmp = NoFile

\* a merge on the optimized path of chunk files that differ from each other
C5_Witness ==
    /\ mresult = "true"
    /\ SumSizes(chunk_files, num_connections) > MERGE_THRESHOLD
    /\ part0[0].data # part0[1].data
    /\ getsize(part0[0]) > buffer_size
    /\ dest0.exists

\* C6 (merge atomicity), as claimed: when merge_chunks fails, at whatever
\* step, the destination is what it was before the merge (the same file, or
\* still no file).
C6_MergeAtomic ==
    (mpc = "done" /\ mresult = "false") => dest = dest0

\* =========================================================== download_parallel
\* chunk_complete with the test of the size left out: a chunk file that exists
\* counts as complete
chunk_complete_if_exists(i) == part[i].exists

\* lines 886: a chunk whose file has exactly the expected size is not scheduled
chunk_complete(i) == part[i].exists /\ getsize(part[i]) = chunk_size_expected(i)

\* lines 842-849: the chunk ids of the list chunks, in order
plan_ids == [k \in 1 .. num_connections |-> k - 1]

\* lines 881-894: the loop over chunks calls executor.submit once for every
\* chunk that is not complete, with the chunk_id of that entry
Submission == SelectSeq(plan_ids, LAMBDA c : ~chunk_complete(c))

\* the locals of download_chunk when executor.submit starts it for chunk ids
\* `todo`
SubmitWorkers(todo) ==
    /\ wpc' = [i \in Chunks |-> IF i \in todo THEN "entry" ELSE "idle"]
    /\ attempt' = [i \in Chunks |-> 0]
    /\ resume_pos' = [i \in Chunks |-> 0]
    /\ downloaded' = [i \in Chunks |-> 0]
    /\ body' = [i \in Chunks |-> << >>]
    /\ wresult' = [i \in Chunks |-> "none"]
    /\ entry_size' = [i \in Chunks |-> -1]
    /\ first_req' = [i \in Chunks |-> NoReq]
    /\ last_req' = [i \in Chunks |-> NoReq]
    /\ heal' = [i \in Chunks |-> "none"]
    /\ healed' = [i \in Chunks |-> FALSE]
    /\ checked' = [i \in Chunks |-> FALSE]
    /\ requests' = [i \in Chunks |-> 0]
    /\ slept' = [i \in Chunks |-> << >>]

\* the call self.merge_chunks(filepath, num_chunks)
CallMerge ==
    /\ mpc' = "scan"
    /\ chunk_files' = [i \in Chunks |-> 0]
    /\ m_idx' = 0
    /\ bytes_copied' = 0
    /\ mresult' = "none"
    /\ dest0' = dest
    /\ part0' = part
    /\ merge_calls' = merge_calls + 1

\* lines 836-911 up to the first wait: the plan, the existing progress, the
\* submission of every chunk that is not complete; with nothing to submit the
\* merge is called at once
parallel_start ==
    /\ ppc = "start"
    /\ LET todo == {i \in Chunks : ~chunk_complete(i)}
       IN /\ chunk_progress' =
                 [i \in Chunks |-> IF part[i].exists THEN getsize(part[i]) ELSE 0]
          /\ futures' = todo
          /\ SubmitWorkers(todo)
          /\ IF todo = {}
             THEN /\ ppc' = "merge"
                  /\ CallMerge
             ELSE /\ ppc' = "poll"
                  /\ UNCHANGED <<mpc, chunk_files, m_idx, bytes_copied, mresult,
                                 dest0, part0, merge_calls>>
    /\ failed_chunks' = {}
    /\ presult' = "none"
    /\ pdest0' = dest
    /\ submitted' = Submission
    /\ UNCHANGED <<calmVars, net, faults, file_size, part, dest, tmp>>

\* a variant of parallel_poll that leaves the loop with the first futures
\* that are done
parallel_poll_first_completed ==
    /\ ppc = "poll"
    /\ LET done == {i \in futures : wpc[i] = "done"}
       IN /\ done # {}
          /\ futures' = {}
          /\ failed_chunks' = failed_chunks \cup {i \in done : wresult[i] # "true"}
          /\ ppc' = "check"
    /\ UNCHANGED <<calmVars, net, faults, file_size, part, dest, workerVars, mergeVars,
                   presult, pdest0, merge_calls, submitted>>

\* lines 917-934: concurrent.futures.wait returns the futures that are done;
\* each is popped and a result other than True is recorded as a failure
parallel_poll ==
    /\ ppc = "poll"
    /\ LET done == {i \in futures : wpc[i] = "done"}
       IN /\ done # {}
          /\ futures' = futures \ done
          /\ failed_chunks' = failed_chunks \cup {i \in done : wresult[i] # "true"}
          /\ ppc' = IF futures \ done = {} THEN "check" ELSE "poll"
    /\ UNCHANGED <<calmVars, net, faults, file_size, part, dest, workerVars, mergeVars,
                   presult, pdest0, merge_calls, submitted>>

\* parallel_check without the test of failed_chunks: only the sizes of the
\* chunk files decide whether the merge is called
parallel_check_ignores_failed ==
    /\ ppc = "check"
    /\ IF \E i \in Chunks : ~chunk_complete(i)
       THEN /\ presult' = "false"
            /\ ppc' = "done"
            /\ UNCHANGED <<mpc, chunk_files, m_idx, bytes_copied, mresult, dest0,
                           part0, merge_calls>>
       ELSE /\ ppc' = "merge"
            /\ CallMerge
            /\ UNCHANGED presult
    /\ UNCHANGED <<calmVars, net, faults, file_size, part, dest, tmp, workerVars,
                   futures, failed_chunks, pdest0, submitted>>

\* lines 955-974: failed chunks end the download; otherwise every chunk file
\* is checked once more and the merge is called
parallel_check ==
    /\ ppc = "check"
    /\ IF failed_chunks # {} \/ (\E i \in Chunks : ~chunk_complete(i))
       THEN /\ presult' = "false"
            /\ ppc' = "done"
            /\ UNCHANGED <<mpc, chunk_files, m_idx, bytes_copied, mresult, dest0,
                           part0, merge_calls>>
       ELSE /\ ppc' = "merge"
            /\ CallMerge
            /\ UNCHANGED presult
    /\ UNCHANGED <<calmVars, net, faults, file_size, part, dest, tmp, workerVars,
                   futures, failed_chunks, pdest0, submitted>>

\* lines 899-911 and 974-992: merge_chunks has returned; the size of the
\* merged file is compared with file_size
parallel_after_merge ==
    /\ ppc = "merge"
    /\ mpc = "done"
    /\ IF mresult = "true"
       THEN IF getsize(dest) = file_size
            THEN presult' = "true" /\ dest' = dest
            ELSE presult' = "false" /\ dest' = NoDest
       ELSE presult' = "false" /\ dest' = dest
    /\ ppc' = "done"
    /\ mpc' = "idle"
    /\ UNCHANGED <<calmVars, net, faults, file_size, part, tmp, workerVars, futures,
                   failed_chunks, pdest0, merge_calls, submitted, chunk_files, m_idx,
                   bytes_copied, mresult, dest0, part0>>

\* ------------------------------------------------------ one download_parallel
\* chunk files an earlier, interrupted download of the same file left behind
LeftoverFiles(i) ==
    {NoFile, File(SubSeq(ChunkBytes(i), 1, 1)), File(ChunkBytes(i))}

InitParallel ==
    /\ remote_len \in (PARALLEL_THRESHOLD + 1) .. MaxFileSize
    /\ file_size = remote_len
    /\ host_range \in BOOLEAN
    /\ now = 1
    /\ probe = "size"
    /\ etag = FALSE
    /\ config = Config(ParallelRetries, max_retry_delay)
    \* a host that ignores Range is a misbehaviour by itself: it gets one
    \* injected fault less
    /\ faults = IF host_range THEN ParallelFaults ELSE ParallelFaults - 1
    /\ sha_cache = None
    /\ IdleFile
    /\ IdleRest
    /\ IdleWorkers([i \in Chunks |-> "idle"])
    /\ part \in [Chunks -> UNION {LeftoverFiles(i) : i \in Chunks}]
    /\ \A i \in Chunks : part[i] \in LeftoverFiles(i)
    /\ dest \in {NoDest, DestFile(<<0, 0>>, 0)}
    /\ IdleMerge
    /\ ppc = "start"
    /\ futures = {}
    /\ failed_chunks = {}
    /\ presult = "none"
    /\ pdest0 = NoDest
    /\ merge_calls = 0
    /\ submitted = << >>

NextParallel ==
    \/ parallel_start
    \/ parallel_poll
    \/ parallel_check
    \/ parallel_after_merge
    \/ NextChunk
    \/ NextMerge

SpecParallel == InitParallel /\ [][NextParallel]_vars

\* ---------------------------------------------- properties of download_parallel
\* download_chunk has returned False for chunk i: every attempt the
\* configuration allows has failed
Exhausted(i) == wpc[i] = "done" /\ wresult[i] = "false"

\* chunk i was complete when download_parallel started (it was not submitted)
\* or its download_chunk has returned True
Completed(i) == ppc # "start" /\ (wpc[i] = "idle" \/ wresult[i] = "true")

\* C9: once a submitted chunk has exhausted its retries, merge_chunks is not
\* invoked and the destination stays as download_parallel found it, every
\* chunk file that was completed keeps exactly the size of its planned range,
\* and download_parallel returns failure
C9_PartialFailure ==
    (\E i \in Chunks : Exhausted(i)) =>
        /\ merge_calls = 0
        /\ mpc = "idle"
        /\ dest = pdest0
        /\ \A j \in Chunks : Completed(j) => chunk_complete(j)
        /\ presult # "true"
        /\ ppc = "done" => presult = "false"

\* C9: download_parallel has returned, one chunk exhausted its retries, the
\* other one was downloaded to the end in the same call, and a destination
\* file existed before the call
C9_Witness ==
    /\ ppc = "done"
    /\ pdest0.exists
    /\ \E i, j \in Chunks : Exhausted(i) /\ wresult[j] = "true"

\* ============================================================ download_single
\* what no step of download_single touches
notSingleVars == <<quietVars, fileVars, unknownVars, workerVars, parallelVars,
                   net, file_size, part, tmp, mpc, chunk_files, m_idx,
                   bytes_copied, mresult, dest0, part0>>

\* lines 1061-1069: the except block; the last attempt returns False
SingleExcept ==
    IF s_attempt < config.max_retries - 1
    THEN /\ s_attempt' = s_attempt + 1
         /\ spc' = "request"
         /\ sresult' = sresult
    ELSE /\ s_attempt' = s_attempt
         /\ spc' = "done"
         /\ sresult' = "false"

\* lines 1057-1059 and 1071: "continue" starts the next attempt at once; after
\* the last attempt the loop ends and False is returned
SingleContinue ==
    IF s_attempt + 1 < config.max_retries
    THEN /\ s_attempt' = s_attempt + 1
         /\ spc' = "request"
         /\ sresult' = sresult
    ELSE /\ s_attempt' = s_attempt
         /\ spc' = "done"
         /\ sresult' = "false"

\* lines 1001-1034: the size of the local file decides between "already
\* complete", a resumed and a fresh download; a resume the host answers with
\* anything but 206 is restarted from 0; the file is opened
download_single_request ==
    /\ spc = "request"
    /\ LET found == IF dest.exists THEN getsize(dest) ELSE 0
       IN IF dest.exists /\ found >= file_size
          THEN /\ sresult' = "true"
               /\ spc' = "done"
               /\ UNCHANGED <<dest, s_resume_pos, s_body, net>>
          ELSE LET resumed == found > 0 /\ host_range
               IN /\ s_resume_pos' = IF resumed THEN found ELSE 0
                  /\ s_body' = IF resumed THEN RangeBytes(found, remote_len - 1)
                               ELSE Remote
                  /\ dest' = IF resumed THEN dest ELSE DestFile(<< >>, now)
                  /\ net' = [net EXCEPT !.data = TRUE]
                  /\ spc' = "stream"
                  /\ UNCHANGED sresult
    /\ UNCHANGED <<quietVars, fileVars, unknownVars, workerVars, parallelVars,
                   faults, file_size, part, tmp, mpc, chunk_files, m_idx,
                   bytes_copied, mresult, dest0, part0, s_attempt>>

\* lines 1011-1021: session.get raises or raise_for_status finds an error
\* status; nothing is written
download_single_refused ==
    /\ spc = "request"
    /\ ~(dest.exists /\ getsize(dest) >= file_size)
    /\ faults > 0
    /\ faults' = faults - 1
    /\ net' = [net EXCEPT !.data = TRUE]
    /\ SingleExcept
    /\ UNCHANGED <<quietVars, fileVars, unknownVars, workerVars, parallelVars,
                   file_size, part, tmp, mpc, chunk_files, m_idx, bytes_copied,
                   mresult, dest0, part0, dest, s_resume_pos, s_body>>

\* lines 1035-1038: one iteration of the loop over response.iter_content
download_single_write ==
    /\ spc = "stream"
    /\ s_body # << >>
    /\ LET n == Min(chunk_size, Len(s_body))
       IN /\ dest' = DestFile(dest.data \o SubSeq(s_body, 1, n), now)
          /\ s_body' = SubSeq(s_body, n + 1, Len(s_body))
    /\ UNCHANGED notSingleVars
    /\ UNCHANGED <<faults, spc, s_attempt, s_resume_pos, sresult>>

\* lines 1035, 1061: iter_content raises while the body is being read
download_single_cut ==
    /\ spc = "stream"
    /\ s_body # << >>
    /\ faults > 0
    /\ faults' = faults - 1
    /\ s_body' = << >>
    /\ SingleExcept
    /\ UNCHANGED notSingleVars
    /\ UNCHANGED <<dest, s_resume_pos>>

\* lines 1053-1059: the size check after the stream
SingleFinal ==
    /\ s_body' = << >>
    /\ IF getsize(dest) = file_size
       THEN /\ sresult' = "true"
            /\ spc' = "done"
            /\ UNCHANGED s_attempt
       ELSE SingleContinue

\* the response delivered all of its body
download_single_end ==
    /\ spc = "stream"
    /\ s_body = << >>
    /\ SingleFinal
    /\ UNCHANGED notSingleVars
    /\ UNCHANGED <<faults, dest, s_resume_pos>>

\* the response ends early without an error
download_single_short ==
    /\ spc = "stream"
    /\ s_body # << >>
    /\ faults > 0
    /\ faults' = faults - 1
    /\ SingleFinal
    /\ UNCHANGED notSingleVars
    /\ UNCHANGED <<dest, s_resume_pos>>

NextSingle ==
    \/ download_single_request
    \/ download_single_refused
    \/ download_single_write
    \/ download_single_cut
    \/ download_single_end
    \/ download_single_short

\* ====================================================== download_unknown_size
\* what the streaming steps of download_unknown_size do not touch
notUnknownVars == <<quietVars, fileVars, singleVars, workerVars, parallelVars,
                    file_size, part, tmp, mpc, chunk_files, m_idx, bytes_copied,
                    mresult, dest0, part0>>

\* lines 821-829: the except block; another attempt after the sleep, or,
\* after the last attempt, False
UnknownExcept ==
    IF u_attempt < config.max_retries - 1
    THEN /\ u_slept' = Append(u_slept, delay(u_attempt))
         /\ u_attempt' = u_attempt + 1
         /\ upc' = "request"
         /\ uresult' = uresult
    ELSE /\ u_slept' = u_slept
         /\ u_attempt' = u_attempt
         /\ upc' = "done"
         /\ uresult' = "false"

\* download_unknown_request with the local file opened for appending
download_unknown_request_appends ==
    /\ upc = "request"
    /\ u_body' = Remote
    /\ dest' = IF dest.exists THEN dest ELSE DestFile(<< >>, now)
    /\ net' = [net EXCEPT !.data = TRUE]
    /\ u_requests' = u_requests + 1
    /\ upc' = "stream"
    /\ UNCHANGED notUnknownVars
    /\ UNCHANGED <<faults, u_attempt, uresult, u_slept>>

\* lines 771-779: the whole file is requested and the local file is opened
\* with 'wb'
download_unknown_request ==
    /\ upc = "request"
    /\ u_body' = Remote
    /\ dest' = DestFile(<< >>, now)
    /\ net' = [net EXCEPT !.data = TRUE]
    /\ u_requests' = u_requests + 1
    /\ upc' = "stream"
    /\ UNCHANGED notUnknownVars
    /\ UNCHANGED <<faults, u_attempt, uresult, u_slept>>

\* lines 771-772: session.get raises or raise_for_status finds an error status
download_unknown_refused ==
    /\ upc = "request"
    /\ faults > 0
    /\ faults' = faults - 1
    /\ net' = [net EXCEPT !.data = TRUE]
    /\ u_requests' = u_requests + 1
    /\ UnknownExcept
    /\ UNCHANGED notUnknownVars
    /\ UNCHANGED <<dest, u_body>>

\* lines 780-783: one iteration of the loop over response.iter_content
download_unknown_write ==
    /\ upc = "stream"
    /\ u_body # << >>
    /\ LET n == Min(chunk_size, Len(u_body))
       IN /\ dest' = DestFile(dest.data \o SubSeq(u_body, 1, n), now)
          /\ u_body' = SubSeq(u_body, n + 1, Len(u_body))
    /\ UNCHANGED notUnknownVars
    /\ UNCHANGED <<faults, net, upc, u_attempt, uresult, u_requests, u_slept>>

\* lines 780, 821: iter_content raises while the body is being read
download_unknown_cut ==
    /\ upc = "stream"
    /\ u_body # << >>
    /\ faults > 0
    /\ faults' = faults - 1
    /\ u_body' = << >>
    /\ UnknownExcept
    /\ UNCHANGED notUnknownVars
    /\ UNCHANGED <<dest, net, u_requests>>

\* lines 740 and 1164: the filename handed to download_unknown_size, which is
\* the key of the record it writes (line 817): download_file hands over its
\* filename, download_file_with_rename its local_filename
unknown_size_key == local_filename

\* lines 795-819: whatever arrived is the file; with an expected hash it is
\* verified, recorded as verified on a match and deleted on a mismatch
UnknownFinal ==
    /\ u_body' = << >>
    /\ upc' = "done"
    /\ UNCHANGED <<u_attempt, u_requests, u_slept>>
    /\ IF expected_sha # None
       THEN IF verify_file_sha256(dest, expected_sha)
            THEN /\ IF unknown_size_key = remote_filename
                    THEN /\ verified_cache' =
                               mark_file_verified(verified_cache, dest,
                                                  expected_sha)
                         /\ UNCHANGED verified_cache_renamed
                    ELSE /\ verified_cache_renamed' =
                               mark_file_verified(verified_cache_renamed, dest,
                                                  expected_sha)
                         /\ UNCHANGED verified_cache
                 /\ verified_cache_file' =
                        save_verified_cache(verified_cache', verified_cache_file)
                 /\ uresult' = "true"
                 /\ UNCHANGED dest
            ELSE /\ dest' = NoDest
                 /\ uresult' = "false"
                 /\ UNCHANGED <<verified_cache, verified_cache_file,
                                verified_cache_renamed>>
       ELSE /\ uresult' = "true"
            /\ UNCHANGED <<dest, verified_cache, verified_cache_file,
                           verified_cache_renamed>>

\* the response delivered all of its body
download_unknown_end ==
    /\ upc = "stream"
    /\ u_body = << >>
    /\ UnknownFinal
    /\ UNCHANGED <<quietVars, fileLocals, singleVars, workerVars, parallelVars,
                   file_size, part, tmp, mpc, chunk_files, m_idx, bytes_copied,
                   mresult, dest0, part0, faults, net>>

\* the response ends early without an error
download_unknown_short ==
    /\ upc = "stream"
    /\ u_body # << >>
    /\ faults > 0
    /\ faults' = faults - 1
    /\ UnknownFinal
    /\ UNCHANGED <<quietVars, fileLocals, singleVars, workerVars, parallelVars,
                   file_size, part, tmp, mpc, chunk_files, m_idx, bytes_copied,
                   mresult, dest0, part0, net>>

NextUnknown ==
    \/ download_unknown_request
    \/ download_unknown_refused
    \/ download_unknown_write
    \/ download_unknown_cut
    \/ download_unknown_end
    \/ download_unknown_short

\* ============================================================== download_file
\* lines 718, 730: a local file of at most 1 KiB is not taken for a download
\* (scaled to one byte)
TRIVIAL_SIZE == 1

\* lines 361-391: what get_file_size returns for the host's answer
get_file_size ==
    CASE probe = "size" -> Some(remote_len)
      [] probe = "chunked" -> Some(-1)
      [] OTHER -> None

\* a variant of get_file_sha256 that asks the host first and uses the cached
\* hash only when the host has none
get_file_sha256_refreshes ==
    IF etag THEN Some(Sha256(Remote))
    ELSE sha_cache

\* lines 240-279: the cached hash if there is one, else the hash the metadata
\* carries, else None
get_file_sha256 ==
    IF sha_cache # None THEN sha_cache
    ELSE IF etag THEN Some(Sha256(Remote))
    ELSE None

\* lines 677-690: the expected hash and the size are looked up
download_file_entry ==
    /\ fpc = "idle"
    /\ Len(returned) < MaxCalls
    /\ expected_sha' = get_file_sha256
    /\ sha_cache' = get_file_sha256
    /\ sha_cache_file' = IF sha_cache = None /\ get_file_sha256 # None
                         THEN save_sha_cache(get_file_sha256, sha_cache_file)
                         ELSE sha_cache_file
    /\ size_probe' = get_file_size
    /\ net' = [sha |-> sha_cache = None, size |-> TRUE, data |-> FALSE]
    /\ fpc' = "local"
    /\ path' = "none"
    /\ fdest0' = dest
    /\ fcache0' = verified_cache
    /\ fverified0' = is_file_verified(verified_cache, dest, get_file_sha256)
    /\ faults0' = faults
    /\ UNCHANGED <<quietVars, singleVars, unknownVars, workerVars, mergeVars,
                   parallelVars, faults, file_size, part, verified_cache,
                   verified_cache_file, verified_cache_renamed, returned>>

\* line 682: os.makedirs raises (the directory cannot be created: no
\* permission, no space, a file is in the way). No try block is around the
\* call, so the exception leaves download_file
download_file_makedirs_raises ==
    /\ fpc = "idle"
    /\ Len(returned) < MaxCalls
    /\ faults > 0
    /\ faults' = faults - 1
    /\ faults0' = faults
    /\ fdest0' = dest
    /\ fcache0' = verified_cache
    /\ fverified0' = FALSE
    /\ net' = NoNet
    /\ path' = "raised"
    /\ returned' = Append(returned, "raised")
    /\ UNCHANGED <<quietVars, singleVars, unknownVars, workerVars, mergeVars,
                   parallelVars, file_size, part, verified_cache,
                   verified_cache_file, verified_cache_renamed, fpc,
                   expected_sha, size_probe,
                   sha_cache, sha_cache_file>>

\* lines 693-732: what the check of the local file decides: "skip" (return
\* True), "skip_mark" (the hash was computed and matched: record it and return
\* True), "remove" (delete the file and download), "go" (download)
LocalCheck ==
    LET actual_size == getsize(dest)
        hashed == IF is_file_verified(verified_cache, dest, expected_sha)
                  THEN "skip"
                  ELSE IF verify_file_sha256(dest, expected_sha)
                       THEN "skip_mark"
                       ELSE "remove"
    IN IF ~dest.exists THEN "go"
       ELSE IF Truthy(size_probe)
            THEN IF actual_size = size_probe[1]
                 THEN IF expected_sha # None THEN hashed ELSE "skip"
                 ELSE IF actual_size > size_probe[1] THEN "remove" ELSE "go"
            ELSE IF actual_size > TRIVIAL_SIZE /\ expected_sha # None
                 THEN hashed
                 ELSE IF actual_size > TRIVIAL_SIZE THEN "skip" ELSE "go"

\* lines 734-746: which download a call that does not skip runs
Dispatch ==
    IF size_probe = None THEN "no_size"
    ELSE IF size_probe[1] = -1 THEN "unknown"
    ELSE IF size_probe[1] > PARALLEL_THRESHOLD THEN "parallel"
    ELSE "single"

\* the calls of lines 744, 746 and 740
StartParallel ==
    /\ ppc' = "start"
    /\ futures' = {}
    /\ failed_chunks' = {}
    /\ presult' = "none"
    /\ pdest0' = dest'
    /\ merge_calls' = 0
    /\ submitted' = << >>

StartSingle ==
    /\ spc' = "request"
    /\ s_attempt' = 0
    /\ s_resume_pos' = 0
    /\ s_body' = << >>
    /\ sresult' = "none"

StartUnknown ==
    /\ upc' = "request"
    /\ u_attempt' = 0
    /\ u_body' = << >>
    /\ uresult' = "none"
    /\ u_requests' = 0
    /\ u_slept' = << >>

\* lines 692-746: the local file is checked; the call returns or hands over
\* to one of the downloads
download_file_local ==
    /\ fpc = "local"
    /\ LET check == LocalCheck
           skips == check \in {"skip", "skip_mark"}
           kind == IF skips THEN "skip" ELSE Dispatch
       IN /\ path' = kind
          /\ verified_cache' =
                IF check = "skip_mark"
                THEN mark_file_verified(verified_cache, dest, expected_sha)
                ELSE verified_cache
          /\ verified_cache_file' =
                IF check = "skip_mark"
                THEN save_verified_cache(verified_cache', verified_cache_file)
                ELSE verified_cache_file
          /\ UNCHANGED verified_cache_renamed
          /\ dest' = IF check = "remove" THEN NoDest ELSE dest
          /\ IF kind \in {"skip", "no_size"}
             THEN /\ fpc' = "idle"
                  /\ returned' = Append(returned,
                                        IF kind = "skip" THEN "true" ELSE "false")
             ELSE /\ fpc' = "run"
                  /\ UNCHANGED returned
          /\ IF kind = "parallel" THEN StartParallel ELSE UNCHANGED parallelVars
          /\ IF kind = "single" THEN StartSingle ELSE UNCHANGED singleVars
          /\ IF kind = "unknown" THEN StartUnknown ELSE UNCHANGED unknownVars
          /\ file_size' = IF kind \in {"parallel", "single"} THEN size_probe[1]
                          ELSE file_size
    /\ UNCHANGED <<quietVars, workerVars, faults, net, part, tmp, mpc,
                   chunk_files, m_idx, bytes_copied, mresult, dest0, part0,
                   expected_sha, size_probe, sha_cache, sha_cache_file, fdest0,
                   fcache0, fverified0, faults0>>

\* lines 709, 715, 729: os.remove raises (the file cannot be deleted: no
\* permission, another process holds it). No try block is around these calls
\* either
download_file_remove_raises ==
    /\ fpc = "local"
    /\ LocalCheck = "remove"
    /\ faults > 0
    /\ faults' = faults - 1
    /\ path' = "raised"
    /\ returned' = Append(returned, "raised")
    /\ fpc' = "idle"
    /\ UNCHANGED <<quietVars, singleVars, unknownVars, workerVars, mergeVars,
                   parallelVars, net, file_size, part, verified_cache,
                   verified_cache_file, verified_cache_renamed, expected_sha,
                   size_probe, sha_cache,
                   sha_cache_file, fdest0, fcache0,
                   fverified0, faults0>>

\* lines 748-761: after download_parallel or download_single has returned, a
\* success is verified against the expected hash if there is one
download_file_verify ==
    /\ fpc = "run"
    /\ \/ path = "parallel" /\ ppc = "done"
       \/ path = "single" /\ spc = "done"
    /\ LET success == IF path = "parallel" THEN presult = "true"
                      ELSE sresult = "true"
       IN IF success /\ expected_sha # None
          THEN IF verify_file_sha256(dest, expected_sha)
               THEN /\ verified_cache' =
                           mark_file_verified(verified_cache, dest, expected_sha)
                    /\ verified_cache_file' =
                           save_verified_cache(verified_cache', verified_cache_file)
                    /\ returned' = Append(returned, "true")
                    /\ UNCHANGED dest
               ELSE /\ dest' = NoDest
                    /\ returned' = Append(returned, "false")
                    /\ UNCHANGED <<verified_cache, verified_cache_file>>
          ELSE /\ returned' = Append(returned, IF success THEN "true" ELSE "false")
               /\ UNCHANGED <<dest, verified_cache, verified_cache_file>>
    /\ fpc' = "idle"
    /\ UNCHANGED verified_cache_renamed
    /\ UNCHANGED <<quietVars, singleVars, unknownVars, workerVars, parallelVars,
                   faults, net, file_size, part, tmp, mpc, chunk_files, m_idx,
                   bytes_copied, mresult, dest0, part0, expected_sha, size_probe,
                   sha_cache, sha_cache_file, path, fdest0, fcache0, fverified0,
                   faults0>>

\* line 740: what download_unknown_size returned is returned
download_file_return ==
    /\ fpc = "run"
    /\ path = "unknown"
    /\ upc = "done"
    /\ returned' = Append(returned, uresult)
    /\ fpc' = "idle"
    /\ UNCHANGED <<quietVars, singleVars, unknownVars, workerVars, mergeVars,
                   parallelVars, faults, net, file_size, part, verified_cache,
                   verified_cache_file, verified_cache_renamed, expected_sha,
                   size_probe, sha_cache,
                   sha_cache_file, path, fdest0, fcache0, fverified0,
                   faults0>>

\* ------------------------------------------------- calls of download_file
\* what the destination path can hold before the first call: nothing, the
\* beginning of the file, the file, or more than the file
InitialDest ==
    {NoDest, DestFile(Remote, 0), DestFile(Remote \o <<0>>, 0)}
    \cup {DestFile(SubSeq(Remote, 1, k), 0) :
             k \in 1 .. Min(TRIVIAL_SIZE + 1, remote_len - 1)}

\* chunk files before the first call: none, or the first byte of chunk 0 (only
\* a file large enough for download_parallel can have any)
InitialParts ==
    {[i \in Chunks |-> NoFile]}
    \cup IF remote_len > PARALLEL_THRESHOLD
         THEN {[i \in Chunks |-> IF i = 0 THEN File(SubSeq(Remote, 1, 1))
                                 ELSE NoFile]}
         ELSE {}

\* the hash of what the remote file was at an earlier time
StaleSha == Some(Sha256(<<0>>))

Init ==
    /\ remote_len \in 1 .. MaxFileSize
    /\ probe \in {"size", "chunked", "none"}
    /\ host_range \in IF probe = "size" THEN BOOLEAN ELSE {FALSE}
    \* no hash is cached and the metadata may carry one, or an earlier run
    \* cached the hash of a remote file that has changed since
    /\ sha_cache \in {None, StaleSha}
    /\ etag \in IF sha_cache = None THEN BOOLEAN ELSE {TRUE}
    /\ now = 1
    /\ config = Config(ParallelRetries, max_retry_delay)
    \* a host that ignores Range is a misbehaviour by itself: it gets one
    \* injected fault less
    /\ faults = IF probe = "size" /\ ~host_range THEN FileFaults - 1
                ELSE FileFaults
    /\ IdleFile
    /\ IdleRest
    /\ file_size = 0
    /\ IdleWorkers([i \in Chunks |-> "idle"])
    /\ part \in InitialParts
    /\ dest \in InitialDest
    /\ IdleMerge
    /\ IdleParallel

Next ==
    \/ download_file_entry
    \/ download_file_makedirs_raises
    \/ download_file_local
    \/ download_file_remove_raises
    \/ download_file_verify
    \/ download_file_return
    \/ NextSingle
    \/ NextUnknown
    \/ NextParallel

Spec == Init /\ [][Next]_vars

\* ------------------------------------------------ properties of download_file
\* a download_file call has returned and no other has begun
Returned == fpc = "idle" /\ returned # << >>
LastReturned == returned[Len(returned)]

\* the file has the expected hash (there is one)
HashMatches(f) == Sha256(f.data) = expected_sha[1]

\* during the call that has returned the host honoured Range and told the
\* size, no fault was injected, and the expected hash was absent or the hash
\* of the remote file
CleanCall ==
    /\ probe = "size"
    /\ host_range
    /\ faults = faults0
    /\ expected_sha \in {None, Some(Sha256(Remote))}

\* C1: a file larger than the threshold on a host that tells its size and
\* honours Range, downloaded without faults: download_file takes
\* download_parallel unless the local file already has the remote size; every
\* chunk is downloaded by its worker or was complete, the chunk files merged
\* are the planned ranges of the remote file, merge_chunks is called once, and
\* the call returns True with a local file equal to the remote file
C1_ParallelDownload ==
    (Returned /\ CleanCall /\ remote_len > PARALLEL_THRESHOLD) =>
        /\ path \in {"parallel", "skip"}
        /\ path = "skip" => fdest0.exists /\ getsize(fdest0) = remote_len
        /\ path = "parallel" =>
              /\ LastReturned = "true"
              /\ \A c \in Chunks : wpc[c] = "idle" \/ wresult[c] = "true"
              /\ merge_calls = 1
              /\ \A c \in Chunks : part0[c].data = ChunkBytes(c)
              /\ dest.exists
              /\ getsize(dest) = remote_len
              /\ dest.data = Remote
              /\ expected_sha # None => HashMatches(dest)

\* C1: such a call has returned True; both workers ran, one of them resumed a
\* chunk file an earlier run left, and the hash was checked
C1_Witness ==
    /\ Returned
    /\ CleanCall
    /\ path = "parallel"
    /\ LastReturned = "true"
    /\ expected_sha # None
    /\ \A c \in Chunks : wresult[c] = "true"
    /\ \E c \in Chunks : entry_size[c] > 0
    /\ dest.data = Remote

\* C2, as claimed: whenever download_file has returned True, the local file
\* has the size of the remote file and, if there is an expected hash, that
\* hash
C2_SuccessMeansComplete ==
    (Returned /\ LastReturned = "true") =>
        /\ dest.exists
        /\ getsize(dest) = remote_len
        /\ expected_sha # None => HashMatches(dest)

\* the step in which download_file learns that a download has succeeded:
\* download_parallel or download_single has returned True, or the stream of
\* download_unknown_size has ended
FreshDownload ==
    \/ fpc = "run" /\ path = "parallel" /\ ppc = "done" /\ presult = "true"
          /\ fpc' = "idle"
    \/ fpc = "run" /\ path = "single" /\ spc = "done" /\ sresult = "true"
          /\ fpc' = "idle"
    \/ fpc = "run" /\ path = "unknown" /\ upc = "stream" /\ upc' = "done"

C4_Idempotent ==
    (/\ Returned
     /\ Len(returned) = 2
     /\ returned[1] = "true"
     /\ fdest0.exists
     /\ fdest0.data = Remote
     /\ expected_sha = Some(Sha256(Remote))
     /\ fverified0) =>
        /\ net = NoNet
        /\ dest = fdest0
        /\ returned[2] = "true"

\* ============================================ download_parallel: the chunk plan
\* line 843 and lines 844-848, for chunk i of n chunks of a file of `size`
\* bytes
range_start(i, size, n) == i * (size \div n)
\* range_end with every range one byte longer than the base size
range_end_overlapping(i, size, n) ==
    IF i = n - 1 THEN size - 1 ELSE (i + 1) * (size \div n)
range_end(i, size, n) ==
    IF i = n - 1 THEN size - 1 ELSE (i + 1) * (size \div n) - 1

\* a downloader at rest on a host that is not used
IdleDownloader ==
    /\ remote_len = 0
    /\ host_range = TRUE
    /\ now = 1
    /\ probe = "size"
    /\ etag = FALSE
    /\ config = Config(max_retries, max_retry_delay)
    /\ faults = 0
    /\ sha_cache = None
    /\ IdleFile
    /\ IdleWorkers([i \in Chunks |-> "idle"])
    /\ part = [i \in Chunks |-> NoFile]
    /\ dest = NoDest
    /\ IdleMerge
    /\ IdleParallel

\* lines 842-849: one iteration of "for i in range(num_chunks)"
plan_append ==
    /\ Len(chunks) < num_chunks
    /\ LET i == Len(chunks)
       IN chunks' = Append(chunks, [chunk_id |-> i,
                                    start |-> range_start(i, file_size, num_chunks),
                                    end |-> range_end(i, file_size, num_chunks)])
    /\ UNCHANGED <<hostVars, batchVars, consoleVars, uiVars, historyVars, diskVars, nameVars, bundleVars, fileVars, singleVars, unknownVars,
                   workerVars, mergeVars, parallelVars, net, faults, file_size,
                   part, num_chunks>>

\* lines 836-840: download_parallel is entered with a file size and a
\* configured number of connections
InitPlan ==
    /\ IdleDownloader
    /\ IdleUi
    /\ IdleBatch
    /\ IdleConsole
    /\ IdleHistory
    /\ IdleDisk
    /\ IdleNames
    /\ IdleBundle
    /\ file_size \in 1 .. MaxPlanSize
    /\ num_chunks \in 1 .. MaxConnections
    /\ chunks = << >>

NextPlan == plan_append

SpecPlan == InitPlan /\ [][NextPlan]_vars

\* --------------------------------------------------- properties of the plan
\* planned size of the k-th entry of chunks
PlannedSize(k) == chunks[k].end - chunks[k].start + 1
RECURSIVE SumPlanned(_)
SumPlanned(k) == IF k = 0 THEN 0 ELSE SumPlanned(k - 1) + PlannedSize(k)

\* C11 (ChunkPlan): the finished plan lists the chunk ids in order; its ranges
\* start at 0, each begins right after the one before and the last ends at
\* file_size - 1, so every byte offset of [0, file_size) lies in exactly one
\* range; all ranges but the last have size file_size div N, the last has
\* that size plus the remainder, and the sizes sum to file_size.  For
\* N = num_connections the plan is the one the workers use.
C11_ChunkPlan ==
    Len(chunks) = num_chunks =>
        LET n == num_chunks
            base == file_size \div n
        IN /\ \A k \in 1 .. n : chunks[k].chunk_id = k - 1
           /\ chunks[1].start = 0
           /\ chunks[n].end = file_size - 1
           /\ \A k \in 1 .. n - 1 : chunks[k + 1].start = chunks[k].end + 1
           /\ \A b \in 0 .. file_size - 1 :
                 Cardinality({k \in 1 .. n :
                                 chunks[k].start <= b /\ b <= chunks[k].end}) = 1
           /\ \A k \in 1 .. n - 1 : PlannedSize(k) = base
           /\ PlannedSize(n) = base + (file_size % n)
           /\ SumPlanned(n) = file_size
           /\ n = num_connections =>
                 \A c \in Chunks : /\ chunks[c + 1].start = chunk_start(c)
                                   /\ chunks[c + 1].end = chunk_end(c)

\* C11: a finished plan of at least three non-empty ranges whose last range
\* takes a remainder
C11_Witness ==
    /\ Len(chunks) = num_chunks
    /\ num_chunks >= 3
    /\ (file_size \div num_chunks) > 0
    /\ (file_size % num_chunks) > 0
    /\ PlannedSize(num_chunks) > PlannedSize(1)

\* ================================================= the verification cache
\* Between two download_file calls another program changes the local file,
\* once: it is deleted, or it is rewritten d ticks later with the same bytes,
\* with one byte less, with one byte more, or with its last byte replaced
Rewritten(data) ==
    {data,
     SubSeq(data, 1, Len(data) - 1),
     data \o <<0>>,
     SubSeq(data, 1, Len(data) - 1) \o <<0>>}

\* the record says what the file is now: same size, modification time within
\* one second
Within(rec, f) ==
    /\ f.exists
    /\ rec.size = getsize(f)
    /\ Abs(rec.mtime - f.mtime) <= MTIME_TOLERANCE

\* the file was changed after the record was made: it is gone, its size is
\* another, or its modification time has moved by a second or more
Changed(rec, f) ==
    \/ ~f.exists
    \/ rec.size # getsize(f)
    \/ Abs(rec.mtime - f.mtime) >= MTIME_TOLERANCE

modify_file ==
    /\ fpc = "idle"
    /\ dest.exists
    /\ dest.data # << >>
    /\ verified_cache # None
    /\ Len(returned) < MaxCalls
    /\ now = 1
    /\ \E d \in 1 .. (MaxClock - now) :
          /\ now' = now + d
          /\ \/ dest' = NoDest
             \/ \E data \in Rewritten(dest.data) : dest' = DestFile(data, now + d)
    /\ disagreed' = IF Changed(verified_cache[1], dest')
                    THEN disagreed \cup {verified_cache[1]}
                    ELSE disagreed
    /\ UNCHANGED <<remote_len, host_range, config, probe, etag, planVars,
                   batchVars, consoleVars, uiVars, diskVars, nameVars, bundleVars, fileVars, singleVars,
                   unknownVars, workerVars, parallelVars,
                   net, faults, file_size, part, tmp, mpc, chunk_files, m_idx,
                   bytes_copied, mresult, dest0, part0>>

\* The file is absent or complete when the first call begins, the metadata
\* carries its hash, and the first call that succeeds records the file as
\* verified
InitCache ==
    /\ remote_len \in PARALLEL_THRESHOLD .. MaxFileSize
    /\ probe \in {"size", "chunked", "none"}
    /\ host_range = TRUE
    /\ sha_cache = None
    /\ etag = TRUE
    /\ now = 1
    /\ config = Config(ParallelRetries, max_retry_delay)
    /\ faults = FileFaults
    /\ IdleFile
    /\ IdleRest
    /\ file_size = 0
    /\ IdleWorkers([i \in Chunks |-> "idle"])
    /\ part = [i \in Chunks |-> NoFile]
    /\ dest \in {NoDest, DestFile(Remote, 0)}
    /\ IdleMerge
    /\ IdleParallel

NextCache ==
    \/ Next
    \/ modify_file

SpecCache == InitCache /\ [][NextCache]_vars

\* a step in which a download_file call returns
ReturnStep == fpc # "idle" /\ fpc' = "idle"

\* the call that returns skips the download without computing the hash of
\* the local file: it returns True, leaves the file, and the record of the
\* file stays the one it found
CachedSkip ==
    /\ LastReturned' = "true"
    /\ path' = "skip"
    /\ verified_cache' = fcache0

\* C13: a call that finds a verification record trusts it (skips without
\* computing the hash) only if the file exists, has the recorded size and a
\* modification time within one second of the recorded one; when the size or
\* the modification time has changed since the record was made, a call that
\* returns True has computed the hash of the file it leaves, of the old file
\* or of a new download: the file has the expected hash and the record is
\* renewed from it
C13_CacheInvalidation ==
    [][(ReturnStep /\ expected_sha # None /\ fcache0 # None) =>
          /\ CachedSkip => Within(fcache0[1], fdest0)
          /\ (Changed(fcache0[1], fdest0) /\ LastReturned' = "true") =>
                /\ dest'.exists
                /\ HashMatches(dest')
                /\ verified_cache' =
                      Some([sha256 |-> expected_sha[1], size |-> getsize(dest'),
                            mtime |-> dest'.mtime])]_vars

\* the second call found the verified file rewritten with the same bytes a
\* second or more later, computed the hash again and skipped the download
C13_Witness ==
    /\ Returned
    /\ Len(returned) = MaxCalls
    /\ expected_sha # None
    /\ fcache0 # None
    /\ fdest0.exists
    /\ fcache0[1].size = getsize(fdest0)
    /\ Abs(fcache0[1].mtime - fdest0.mtime) >= MTIME_TOLERANCE
    /\ path = "skip"
    /\ LastReturned = "true"
    /\ verified_cache # fcache0

\* ================================== download_file: the size is not known
\* get_file_size returned the marker -1 or None for the call that has returned
SizeUnknown == size_probe = None \/ size_probe = Some(-1)

\* the call that has returned found a local file that is not trivially small
FoundLocalFile == fdest0.exists /\ getsize(fdest0) > TRIVIAL_SIZE

\* the call that has returned skipped the download and left the file it found
KeptLocalFile ==
    /\ path = "skip"
    /\ LastReturned = "true"
    /\ dest = fdest0

\* C14, as claimed: when the size is unknown (the marker -1, or None) and the
\* local file is larger than 1 KiB, download_file does not delete it as
\* corrupt: without an expected hash it accepts the file and returns True,
\* and with an expected hash that the file has it skips the download
C14_UnknownSizeKeepsFile ==
    (Returned /\ SizeUnknown /\ FoundLocalFile) =>
        /\ expected_sha = None => KeptLocalFile
        /\ (expected_sha # None /\ Sha256(fdest0.data) = expected_sha[1])
              => KeptLocalFile

\* C15, as claimed: download_file does not return False merely because there
\* is no expected hash or because the size cannot be determined: a call that
\* returns False has run a download (it sent a request for the data of the
\* file), and it is the download or its verification that failed
C15_MissingMetadataNotAnError ==
    (Returned /\ LastReturned = "false") =>
        /\ path \in {"parallel", "single", "unknown"}
        /\ net.data

\* ================================= download_file: errors of the file system
\* C17, as claimed: whatever error occurs inside a download_file call,
\* creating the target directory and deleting a stale or corrupt local file
\* included, the call returns True or False; no exception leaves it
C17_NoExceptionEscapes ==
    \A k \in 1 .. Len(returned) : returned[k] \in {"true", "false"}

\* ============================================================ download_models
\* lines 1263-1295: one iteration of the loop that sorts the scanned files
\* into skipped and to_download. A local file of more than 1 KiB is skipped
\* when no hash is known for it or when it is verified (by the cache or by
\* computing its hash)
Verified(f) == local[f] = "good"

scan_file ==
    /\ bpc = "scan"
    /\ scanned < Len(files)
    /\ LET f == scanned + 1
           filename == files[f]
       IN IF local[f] # "absent" /\ (~has_sha[f] \/ Verified(f))
          THEN /\ skipped' = Append(skipped, filename)
               /\ UNCHANGED to_download
          ELSE /\ to_download' = Append(to_download, filename)
               /\ UNCHANGED skipped
    /\ scanned' = scanned + 1
    /\ UNCHANGED <<hostVars, planVars, consoleVars, uiVars, historyVars, diskVars, nameVars, bundleVars, fileVars,
                   singleVars, unknownVars, workerVars, mergeVars,
                   parallelVars, net, faults, file_size,
                   part, files, local, has_sha, bpc, successful, failed,
                   attempted>>

\* lines 1256-1258 and 1297-1311: no file was found, or every file is there
\* already: download_models returns; otherwise the second loop begins
scan_done ==
    /\ bpc = "scan"
    /\ scanned = Len(files)
    /\ bpc' = IF to_download = << >> THEN "returned" ELSE "download"
    /\ UNCHANGED <<hostVars, planVars, consoleVars, uiVars, historyVars, diskVars, nameVars, bundleVars, fileVars,
                   singleVars, unknownVars, workerVars, mergeVars,
                   parallelVars, net, faults, file_size,
                   part, files, local, has_sha, scanned, to_download, skipped,
                   successful, failed, attempted>>

\* how a call of download_file_with_rename can end (lines 1098-1185): it
\* returns True or False, or one of the calls outside its try blocks raises
\* (os.makedirs at 1105, os.remove at 1127, 1133 and 1147)
CallEnds == {"true", "false", "raised"}

\* lines 1317-1329: one iteration of the loop over to_download. No try block
\* is around the call, so an exception that leaves it leaves download_models
download_next ==
    /\ bpc = "download"
    /\ Len(attempted) < Len(to_download)
    /\ LET filename == to_download[Len(attempted) + 1]
       IN /\ attempted' = Append(attempted, filename)
          /\ \E result \in CallEnds :
                /\ successful' = IF result = "true" THEN successful + 1
                                 ELSE successful
                /\ failed' = IF result = "false" THEN failed + 1 ELSE failed
                /\ bpc' = IF result = "raised" THEN "aborted" ELSE bpc
    /\ UNCHANGED <<hostVars, planVars, consoleVars, uiVars, historyVars, diskVars, nameVars, bundleVars, fileVars,
                   singleVars, unknownVars, workerVars, mergeVars,
                   parallelVars, net, faults, file_size,
                   part, files, local, has_sha, scanned, to_download, skipped>>

\* lines 1331-1335: the summary is printed and download_models returns
download_summary ==
    /\ bpc = "download"
    /\ Len(attempted) = Len(to_download)
    /\ bpc' = "returned"
    /\ UNCHANGED <<hostVars, planVars, consoleVars, uiVars, historyVars, diskVars, nameVars, bundleVars, fileVars,
                   singleVars, unknownVars, workerVars, mergeVars,
                   parallelVars, net, faults, file_size,
                   part, files, local, has_sha, scanned, to_download, skipped,
                   successful, failed, attempted>>

\* download_models has built its downloader and scanned the repository: up to
\* MaxFiles files, each absent or present locally, with or without a hash
InitBatch ==
    /\ IdleDownloader
    /\ IdleUi
    /\ IdlePlan
    /\ IdleConsole
    /\ IdleHistory
    /\ IdleDisk
    /\ IdleNames
    /\ IdleBundle
    /\ file_size = 0
    /\ \E n \in 0 .. MaxFiles :
          /\ files = [f \in 1 .. n |-> f]
          /\ local \in [1 .. n -> {"absent", "good", "bad"}]
          /\ has_sha \in [1 .. n -> BOOLEAN]
    /\ bpc = "scan"
    /\ scanned = 0
    /\ to_download = << >>
    /\ skipped = << >>
    /\ successful = 0
    /\ failed = 0
    /\ attempted = << >>

NextBatch ==
    \/ scan_file
    \/ scan_done
    \/ download_next
    \/ download_summary

SpecBatch == InitBatch /\ [][NextBatch]_vars

\* download_models is over: it returned, or an exception left it
BatchOver == bpc \in {"returned", "aborted"}

\* C16, as claimed: download_models returns normally whatever happens to the
\* single files; by then every file of to_download has been attempted exactly
\* once and in list order, successful + failed is the number of files to
\* download, and skipped + successful + failed is the number of files scanned
C16_BatchIsolation ==
    BatchOver =>
        /\ bpc = "returned"
        /\ attempted = to_download
        /\ successful + failed = Len(to_download)
        /\ Len(skipped) + successful + failed = Len(files)

\* ================================================================ the console
\* The console calls the coordinator makes, in order, while it downloads one
\* file through download_parallel, verifies it and records it as verified;
\* each with the line of the call. "submit" starts the workers (lines
\* 877-892); the progress call of line 947 is repeated until every worker has
\* returned
Coordinator ==
    << [op |-> "log", line |-> 851],
       [op |-> "submit", line |-> 877],
       [op |-> "show", line |-> 947],
       [op |-> "clear", line |-> 953],
       [op |-> "log", line |-> 973],
       [op |-> "show", line |-> 583],
       [op |-> "finalize", line |-> 589],
       [op |-> "log", line |-> 980],
       [op |-> "log", line |-> 402],
       [op |-> "show", line |-> 432],
       [op |-> "finalize", line |-> 439],
       [op |-> "debug", line |-> 222],
       [op |-> "debug", line |-> 235],
       [op |-> "debug", line |-> 190],
       [op |-> "debug", line |-> 191] >>

\* what thread t does next: a console call, "submit", or nothing of interest.
\* A worker writes to the console only when its chunk has failed for good
\* (line 525)
Op(t) ==
    IF t = Main
    THEN IF cstep <= Len(Coordinator) THEN Coordinator[cstep].op ELSE "none"
    ELSE IF tpc[t] = "log" THEN "log" ELSE "none"

ConsoleOps == {"log", "show", "clear", "finalize", "debug"}

holds_lock_but_for_log(op) == op \in {"show", "clear", "finalize"}

\* lines 103-153: clear_progress_line, show_progress_line,
\* finalize_progress_line and log run "with self._progress_lock"; the debug
\* output of lines 190-191, 222, 235 and 238 is a bare print
holds_lock(op) == op \in {"log", "show", "clear", "finalize"}

\* the call writes to sys.stdout: clear_progress_line only when a progress
\* line is shown (line 105)
Writes(op) == op = "clear" => active_progress

WorkersAtRest == \A w \in Chunks : tpc[w] \in {"idle", "done"}

\* thread t enters a console call: it takes the lock if the call is one that
\* does, and begins to write
console_begin(t) ==
    /\ ~in_call[t]
    /\ Op(t) \in ConsoleOps
    /\ holds_lock(Op(t)) => progress_lock = Free
    /\ progress_lock' = IF holds_lock(Op(t)) THEN t ELSE progress_lock
    /\ in_call' = [in_call EXCEPT ![t] = TRUE]
    /\ writing' = IF Writes(Op(t)) THEN writing \cup {t} ELSE writing
    /\ UNCHANGED <<active_progress, last_progress_len, cstep, tpc, stdout>>

\* where the coordinator goes after a call: the progress call of line 947 is
\* made again while a worker is running
NextStep ==
    IF Coordinator[cstep].line = 947 /\ ~WorkersAtRest THEN cstep ELSE cstep + 1

\* What a console call writes to sys.stdout: "cr" is a carriage return,
\* "blank" a run of spaces, "text" the text of a progress line, "msg" the
\* text of a log line, "nl" a newline.
\* lines 96-99: "\r" + " " * clear_len + "\r"
clear_progress_line_locked == <<"cr", "blank", "cr">>

\* lines 116-121: the text of len characters, written again after the spaces
\* that erase the rest of a longer line
show_progress_line(len) ==
    IF last_progress_len - len > 0
    THEN <<"cr", "text", "blank", "cr", "text">>
    ELSE <<"cr", "text">>

\* lines 128-138: the final text, as show_progress_line writes it, and a
\* newline
finalize_progress_line(len) == show_progress_line(len) \o <<"nl">>

\* a variant of log that draws the progress line again after the message
log_redraws ==
    (IF active_progress THEN clear_progress_line_locked ELSE << >>)
        \o <<"msg", "nl">>
        \o (IF active_progress THEN <<"cr", "text">> ELSE << >>)

\* lines 149-153: log clears a progress line that is shown, then prints
log ==
    (IF active_progress THEN clear_progress_line_locked ELSE << >>)
        \o <<"msg", "nl">>

\* thread t has written, sets the renderer state as its call does (lines
\* 100-101, 123-124, 145-146, 151-152), releases the lock if it holds it and
\* leaves the call
console_end(t) ==
    /\ in_call[t]
    /\ LET op == Op(t)
       IN /\ \/ /\ op = "show"
                /\ \E len \in 1 .. MaxLineLen :
                      /\ last_progress_len' = len
                      /\ stdout' = show_progress_line(len)
                /\ active_progress' = TRUE
             \/ /\ op \in {"clear", "finalize", "log"}
                /\ last_progress_len' = IF op = "log" /\ ~active_progress
                                        THEN last_progress_len ELSE 0
                /\ active_progress' = FALSE
                /\ \/ /\ op = "log"
                      /\ stdout' = log
                   \/ /\ op = "clear"
                      /\ stdout' = IF active_progress
                                    THEN clear_progress_line_locked ELSE << >>
                   \/ /\ op = "finalize"
                      /\ \E len \in 1 .. MaxLineLen :
                            stdout' = finalize_progress_line(len)
             \/ /\ op = "debug"
                /\ stdout' = <<"msg", "nl">>
                /\ UNCHANGED <<active_progress, last_progress_len>>
          /\ progress_lock' = IF progress_lock = t THEN Free ELSE progress_lock
    /\ in_call' = [in_call EXCEPT ![t] = FALSE]
    /\ writing' = writing \ {t}
    /\ IF t = Main
       THEN cstep' = NextStep /\ UNCHANGED tpc
       ELSE tpc' = [tpc EXCEPT ![t] = "done"] /\ UNCHANGED cstep

\* lines 877-892: the coordinator submits download_chunk for every chunk
submit ==
    /\ Op(Main) = "submit"
    /\ tpc' = [w \in Chunks |-> "run"]
    /\ cstep' = cstep + 1
    /\ UNCHANGED <<progress_lock, active_progress, last_progress_len, in_call,
                   writing, stdout>>

\* download_chunk returns True: the worker has written nothing to the console
worker_returns(w) ==
    /\ tpc[w] = "run"
    /\ tpc' = [tpc EXCEPT ![w] = "done"]
    /\ UNCHANGED <<progress_lock, active_progress, last_progress_len, cstep,
                   in_call, writing, stdout>>

\* lines 523-526: the last attempt has failed, the worker comes to self.log
worker_fails(w) ==
    /\ tpc[w] = "run"
    /\ tpc' = [tpc EXCEPT ![w] = "log"]
    /\ UNCHANGED <<progress_lock, active_progress, last_progress_len, cstep,
                   in_call, writing, stdout>>

notConsoleVars == <<hostVars, planVars, batchVars, uiVars, historyVars, diskVars, nameVars, bundleVars, fileVars, singleVars,
                    unknownVars, workerVars, mergeVars, parallelVars, net,
                    faults, file_size, part>>

InitConsole ==
    /\ IdleDownloader
    /\ IdleUi
    /\ IdlePlan
    /\ IdleBatch
    /\ IdleConsole
    /\ IdleHistory
    /\ IdleDisk
    /\ IdleNames
    /\ IdleBundle
    /\ file_size = 0

NextConsole ==
    /\ UNCHANGED notConsoleVars
    /\ \/ \E t \in Threads : console_begin(t)
       \/ \E t \in Threads : console_end(t)
       \/ submit
       \/ \E w \in Chunks : worker_returns(w)
       \/ \E w \in Chunks : worker_fails(w)

SpecConsole == InitConsole /\ [][NextConsole]_vars

\* at most one thread is writing to the console
OneWriter == Cardinality(writing) <= 1

\* a step that changes the renderer state is taken by the holder of the lock
RendererUnderLock ==
    [][(active_progress' # active_progress
           \/ last_progress_len' # last_progress_len)
          => (progress_lock # Free /\ in_call[progress_lock]
                 /\ ~in_call'[progress_lock])]_vars

\* C18, as claimed: every console write, debug output included, is made by
\* the thread that holds the progress lock
C18_EveryWriteUnderMutex ==
    \A t \in writing : progress_lock = t

\* C18, amended: at most one thread at a time writes to the console. The
\* progress line, clear, finalize and log write while holding the progress
\* lock; the debug output of mark_file_verified and save_verified_cache is
\* written without the lock, by the coordinator, when no worker is running.
\* The renderer state changes only in steps of the lock holder
C18_ConsoleExclusion ==
    /\ [](OneWriter
            /\ \A t \in writing :
                  \/ progress_lock = t
                  \/ t = Main /\ Op(Main) = "debug" /\ WorkersAtRest)
    /\ RendererUnderLock

\* a worker that has failed is writing its log line while the coordinator
\* waits for the lock to draw the progress line
C18_Witness ==
    /\ \E w \in Chunks : w \in writing /\ progress_lock = w
    /\ Op(Main) = "show"
    /\ ~in_call[Main]
    /\ active_progress

\* ============================================================ ModelDownloader
\* (src/ui/model_downloader.py) the download ids that have an entry
Entries == {id \in DownloadIds : downloads[id] # NoEntry}

\* str(e) of the exception a download ended with: a message, or nothing
Messages == {"", "connection reset"}
\* the percentage a progress callback reports
Percentages == {50}

\* the threads that have not been started (a thread runs one download)
IdleThreads == {t \in BackgroundThreads : threads[t].pc = "none"}

cancel_with_reason(entry) ==
    [entry EXCEPT !.status = "cancelled", !.error = Some("cancelled")]

\* line 1163
cancel(entry) == [entry EXCEPT !.status = "cancelled"]

\* lines 1083-1104: download_model records the download as starting and
\* starts its worker thread
download_model ==
    /\ download_lock = NoThread
    /\ \E id \in HfIds, t \in IdleThreads :
          /\ downloads' = [downloads EXCEPT ![id] =
                              [status |-> "starting", progress |-> 0,
                               error |-> None]]
          /\ set_error' = [set_error EXCEPT ![id] = FALSE]
          /\ threads' = [threads EXCEPT ![t] = [id |-> id, pc |-> "start"]]
    /\ UNCHANGED <<download_lock, polled>>

\* lines 1457 and 1495-1497: download_civitai_model starts its thread; the
\* entry is made by the thread
download_civitai_model ==
    /\ \E id \in CivitaiIds, t \in IdleThreads :
          threads' = [threads EXCEPT ![t] = [id |-> id, pc |-> "start"]]
    /\ UNCHANGED <<downloads, download_lock, polled, set_error>>

\* lines 1111-1112 (_download_worker) and 1459-1467 (download_thread): the
\* thread marks its download as downloading, the latter by making the entry
thread_begins(t) ==
    /\ threads[t].pc = "start"
    /\ download_lock = NoThread
    /\ LET id == threads[t].id
       IN /\ downloads' = [downloads EXCEPT ![id] =
                              IF id \in HfIds \cup ModelIds("hf")
                              THEN [@ EXCEPT !.status = "downloading"]
                              ELSE [status |-> "downloading", progress |-> 0,
                                    error |-> None]]
          /\ set_error' = [set_error EXCEPT ![id] =
                              IF id \in HfIds \cup ModelIds("hf") THEN @
                              ELSE FALSE]
    /\ threads' = [threads EXCEPT ![t].pc = "run"]
    /\ UNCHANGED <<download_lock, polled>>

\* lines 1470-1475: the progress callback of a CivitAI download
progress_update(t) ==
    /\ threads[t].pc = "run"
    /\ threads[t].id \in CivitaiIds \cup ModelIds("civitai")
    /\ download_lock = NoThread
    /\ \E pct \in Percentages :
          downloads' = [downloads EXCEPT ![threads[t].id].progress =
                           IF threads[t].id \in Entries THEN pct ELSE @]
    /\ UNCHANGED <<download_lock, threads, polled, set_error>>

\* lines 1139-1140 and 1485-1486: the download has ended well; the thread
\* takes the lock and sets the status
thread_completes(t) ==
    /\ threads[t].pc = "run"
    /\ download_lock = NoThread
    /\ download_lock' = t
    /\ downloads' = [downloads EXCEPT ![threads[t].id].status = "completed"]
    /\ threads' = [threads EXCEPT ![t].pc = "completed"]
    /\ UNCHANGED <<polled, set_error>>

\* lines 1141-1142 and 1487-1488: the rest of that block
thread_completed(t) ==
    /\ threads[t].pc = "completed"
    /\ download_lock' = NoThread
    /\ downloads' = [downloads EXCEPT ![threads[t].id].progress = 100]
    /\ threads' = [threads EXCEPT ![t].pc = "done"]
    /\ UNCHANGED <<polled, set_error>>

\* lines 1144-1146 and 1490-1492: the download has raised; the thread takes
\* the lock and sets the status
thread_fails(t) ==
    /\ threads[t].pc = "run"
    /\ download_lock = NoThread
    /\ download_lock' = t
    /\ downloads' = [downloads EXCEPT ![threads[t].id].status = "error"]
    /\ set_error' = [set_error EXCEPT ![threads[t].id] = TRUE]
    /\ threads' = [threads EXCEPT ![t].pc = "failed"]
    /\ UNCHANGED polled

\* lines 1147 and 1493: the rest of that block
thread_failed(t) ==
    /\ threads[t].pc = "failed"
    /\ download_lock' = NoThread
    /\ \E msg \in Messages :
          downloads' = [downloads EXCEPT ![threads[t].id].error = Some(msg)]
    /\ threads' = [threads EXCEPT ![t].pc = "done"]
    /\ UNCHANGED <<polled, set_error>>

\* lines 1159-1165: cancel_download marks the entry, if there is one
cancel_download ==
    /\ download_lock = NoThread
    /\ \E id \in DownloadIds :
          downloads' = [downloads EXCEPT ![id] =
                           IF id \in Entries THEN cancel(@) ELSE @]
    /\ UNCHANGED <<download_lock, threads, polled, set_error>>

\* lines 1154-1157: get_all_downloads returns a copy of the map; its entries
\* are the entries of self.downloads themselves
get_all_downloads ==
    /\ download_lock = NoThread
    /\ polled' = Entries
    /\ UNCHANGED <<downloads, download_lock, threads, set_error>>

notUiVars == <<hostVars, planVars, batchVars, consoleVars, historyVars, diskVars, nameVars, bundleVars, fileVars,
               singleVars, unknownVars, workerVars, mergeVars, parallelVars,
               net, faults, file_size, part>>

InitUi ==
    /\ IdleDownloader
    /\ IdlePlan
    /\ IdleBatch
    /\ IdleConsole
    /\ IdleUi
    /\ IdleHistory
    /\ IdleDisk
    /\ IdleNames
    /\ IdleBundle
    /\ file_size = 0

NextUi ==
    /\ UNCHANGED notUiVars
    /\ \/ download_model
       \/ download_civitai_model
       \/ \E t \in BackgroundThreads : thread_begins(t)
       \/ \E t \in BackgroundThreads : progress_update(t)
       \/ \E t \in BackgroundThreads : thread_completes(t)
       \/ \E t \in BackgroundThreads : thread_completed(t)
       \/ \E t \in BackgroundThreads : thread_fails(t)
       \/ \E t \in BackgroundThreads : thread_failed(t)
       \/ cancel_download
       \/ get_all_downloads

SpecUi == InitUi /\ [][NextUi]_vars

Statuses == {"starting", "downloading", "completed", "error", "cancelled"}

\* the error field of the entry is neither None nor the empty string
HasError(entry) == entry.error # None /\ entry.error # Some("")

\* C19: every entry of the map get_all_downloads returned has, whenever it is
\* read, a status among starting, downloading, completed, error and
\* cancelled, and a non-empty error only if a worker has set the status of
\* that download to error
C19_DownloadStatus ==
    \A id \in polled :
        /\ downloads[id].status \in Statuses
        /\ HasError(downloads[id]) => set_error[id]

\* a polled download has failed with a message and was cancelled afterwards
C19_Witness ==
    \E id \in polled :
        /\ downloads[id].status = "cancelled"
        /\ HasError(downloads[id])
        /\ set_error[id]

\* ======================================== download_chunk: the chunk content
\* C20, as claimed: on a host that answers every range with its bytes, a
\* chunk file that is not larger than its planned range holds the first bytes
\* of the range, as many as its size; every attempt that opens the chunk file
\* for appending asks for the range from start plus the size the file has on
\* disk; and a chunk accepted as complete holds the bytes of its range
C20_ChunkContent ==
    host_range =>
        \A i \in Chunks :
            /\ (part[i].exists /\ getsize(part[i]) <= chunk_size_expected(i)) =>
                   part[i].data = SubSeq(ChunkBytes(i), 1, getsize(part[i]))
            /\ last_req[i].mode = "ab" =>
                   last_req[i].start = chunk_start(i) + last_req[i].had
            /\ wresult[i] = "true" => part[i].data = ChunkBytes(i)

\* ================================== download_parallel: when the merge is called
\* every chunk file .part0 .. .part(N-1) exists and has the size of its range
AllChunksPlanned ==
    \A i \in Chunks :
        part[i].exists /\ Len(part[i].data) = chunk_end(i) - chunk_start(i) + 1

\* download_parallel has called merge_chunks, which has not taken a step yet
MergeInvoked == ppc = "merge" /\ mpc = "scan"

\* download_parallel holds the value True that merge_chunks returned
MergeSucceeded == ppc = "merge" /\ mpc = "done" /\ mresult = "true"

\* C21: download_parallel calls merge_chunks only when every chunk file
\* exists and has exactly the size of its planned range, after downloading
\* chunks in this call as well as when every chunk was complete already; and
\* whenever the merge succeeds the merged file has file_size bytes
C21_MergeOnlyWhenComplete ==
    /\ MergeInvoked => AllChunksPlanned
    /\ MergeSucceeded => getsize(dest) = file_size

\* C21: the merge has succeeded in a call that downloaded one chunk and found
\* the other one complete
C21_Witness ==
    /\ MergeSucceeded
    /\ \E i, j \in Chunks : wresult[i] = "true" /\ wpc[j] = "idle"

\* the merge has been called in a call that found every chunk complete
C21_AllCompletePath == MergeInvoked /\ \A i \in Chunks : wpc[i] = "idle"

\* the merge has been called in a call that downloaded every chunk
C21_AllDownloadedPath == MergeInvoked /\ \A i \in Chunks : wresult[i] = "true"


\* ===================================== merge_chunks: what a failed merge leaves
\* merge_chunks has returned False
MergeFailed == mpc = "done" /\ mresult = "false"

C22_MissingChunk ==
    /\ MergeFailed
    /\ \E i, j \in Chunks : ~part0[i].exists /\ getsize(part0[j]) > 0


\* ==================================== download_file: the local file it finds
\* lines 1035-1038: the response delivers more than the size that was
\* announced (a body the host compressed and the client inflates, a remote
\* file that has grown since its size was read); the byte is written like
\* any other
download_single_excess ==
    /\ spc = "stream"
    /\ s_body = << >>
    /\ getsize(dest) = file_size
    /\ faults > 0
    /\ faults' = faults - 1
    /\ dest' = DestFile(dest.data \o <<0>>, now)
    /\ UNCHANGED notSingleVars
    /\ UNCHANGED <<spc, s_attempt, s_resume_pos, s_body, sresult>>

\* n bytes that do not come from the remote file
Zeros(n) == [j \in 1 .. n |-> 0]

\* what the destination path can hold before the first call: nothing, or a
\* file of any size up to two bytes more than the remote file (the beginning
\* of the remote file, the remote file, the remote file and more)
LocalFiles ==
    {NoDest}
    \cup {DestFile(SubSeq(Remote, 1, Min(k, remote_len))
                      \o Zeros(k - Min(k, remote_len)), 0) :
             k \in 0 .. (remote_len + 2)}

\* successive calls of download_file on a remote file of any size, the empty
\* file included, with any local file
InitLocal ==
    /\ remote_len \in 0 .. MaxFileSize
    /\ probe \in {"size", "chunked"}
    /\ host_range = TRUE
    /\ sha_cache = None
    /\ etag \in BOOLEAN
    /\ now = 1
    /\ config = Config(ParallelRetries, max_retry_delay)
    /\ faults = FileFaults
    /\ IdleFile
    /\ IdleRest
    /\ file_size = 0
    /\ IdleWorkers([i \in Chunks |-> "idle"])
    /\ part \in InitialParts
    /\ dest \in LocalFiles
    /\ IdleMerge
    /\ IdleParallel

NextLocal == Next \/ download_single_excess

SpecLocal == InitLocal /\ [][NextLocal]_vars

\* get_file_size returned a size (a number that is not the marker -1)
SizeKnown == size_probe # None /\ size_probe[1] >= 0

\* the call that has returned found a local file larger than the size
FoundTooLarge ==
    /\ SizeKnown
    /\ fdest0.exists
    /\ getsize(fdest0) > size_probe[1]

\* C23, as claimed: for every known expected size, 0 included, a call of
\* download_file that finds a local file larger than the expected size (and
\* that no exception leaves) does not accept it as complete: it does not
\* skip the download, it asks the host for the data, and when it returns
\* True the local file has the expected size
C23_TooLargeIsCorrupt ==
    (Returned /\ FoundTooLarge /\ path # "raised") =>
        /\ path # "skip"
        /\ net.data
        /\ LastReturned = "true" => getsize(dest) = size_probe[1]

\* for the expected sizes other than 0 the file is not kept and the host is
\* asked for the data
C23_TooLargeIsCorruptUnlessEmpty ==
    (Returned /\ FoundTooLarge /\ path # "raised" /\ size_probe[1] > 0) =>
        /\ path # "skip"
        /\ net.data
        /\ dest # fdest0

\* download_single has returned True to download_file
SingleSucceeded ==
    fpc = "run" /\ path = "single" /\ spc = "done" /\ sresult = "true"

\* C24, as claimed: download_single returns True only when the local file
\* has exactly file_size bytes; a file that an attempt left larger than
\* file_size is never reported as complete
C24_SingleExactSize ==
    SingleSucceeded => (dest.exists /\ getsize(dest) = file_size)

\* download_single has returned True for a file that an attempt of the same
\* call left larger than file_size
C24_TooLargeAfterAttempt ==
    /\ SingleSucceeded
    /\ s_attempt > 0
    /\ file_size > 0
    /\ getsize(dest) > file_size


\* ================================ download_parallel: the progress it reports
\* lines 936-938: current_bytes = sum(chunk_progress.values())
current_bytes == SumSizes(chunk_progress, num_connections)

\* no chunk file has been deleted or truncated by the workers that run: every
\* worker that has got past the check on entry found a non-empty beginning
\* of its range, which it only appends to, and has not deleted it as too large
NoChunkLost ==
    \A i \in Chunks :
        wpc[i] \in {"idle", "entry"} \/ (EnteredPartial(i) /\ ~healed[i])

\* C25, as claimed: while download_parallel waits for its workers, the sum of
\* the per-chunk progress counters never decreases from one state to the
\* next, whatever the order of the workers' callbacks, as long as no chunk
\* file is deleted or truncated
C25_ProgressMonotone ==
    [][(ppc = "poll" /\ NoChunkLost /\ NoChunkLost') =>
          current_bytes' >= current_bytes]_vars


\* ===================== the verification record of a file that was put back
\* Another program puts back a file of the recorded size with the recorded
\* modification time (a backup restored with its timestamps, a copy that
\* keeps them), with the bytes the file had or with its last byte replaced
restore_file ==
    /\ fpc = "idle"
    /\ Len(returned) < MaxCalls
    /\ verified_cache # None
    /\ verified_cache[1] \in disagreed
    /\ Changed(verified_cache[1], dest)
    /\ LET rec == verified_cache[1]
       IN \E data \in {d \in Rewritten(Remote) : Len(d) = rec.size} :
             dest' = DestFile(data, rec.mtime)
    /\ UNCHANGED <<hostVars, planVars, batchVars, consoleVars, uiVars,
                   historyVars, diskVars, nameVars, bundleVars, fileVars, singleVars, unknownVars, workerVars,
                   parallelVars, net, faults, file_size, part, tmp, mpc,
                   chunk_files, m_idx, bytes_copied, mresult, dest0, part0>>

\* lines 41-64: the downloader is built after an earlier run has downloaded
\* the file and recorded it as verified; the record is read from the cache
\* file
InitRestore ==
    /\ remote_len \in PARALLEL_THRESHOLD .. MaxFileSize
    /\ probe \in {"size", "chunked", "none"}
    /\ host_range = TRUE
    /\ sha_cache = None
    /\ etag = TRUE
    /\ now = 1
    /\ config = Config(ParallelRetries, max_retry_delay)
    /\ faults = FileFaults
    /\ fpc = "idle"
    /\ net = NoNet
    /\ expected_sha = None
    /\ size_probe = None
    /\ dest = DestFile(Remote, 0)
    /\ verified_cache = mark_file_verified(None, dest, Some(Sha256(Remote)))
    /\ returned = << >>
    /\ path = "none"
    /\ fdest0 = NoDest
    /\ fcache0 = None
    /\ fverified0 = FALSE
    /\ faults0 = faults
    /\ IdleSingle
    /\ IdleUnknown
    /\ IdleRest
    /\ file_size = 0
    /\ IdleWorkers([i \in Chunks |-> "idle"])
    /\ part = [i \in Chunks |-> NoFile]
    /\ IdleMerge
    /\ IdleParallel

NextRestore ==
    \/ NextCache
    \/ restore_file

SpecRestore == InitRestore /\ [][NextRestore]_vars

\* C26, as claimed: once the local file has disagreed with a verification
\* record in size or modification time, no call of download_file trusts that
\* record again (skips the download without computing the hash), not even
\* when the size and the modification time of the file are the recorded ones
\* again
C26_InvalidationIsPermanent ==
    [][(ReturnStep /\ fcache0 # None /\ CachedSkip) =>
          fcache0[1] \notin disagreed]_vars

\* a call found the file changed, deleted it and could not download it; the
\* file was put back with other bytes, and the next call trusted the old
\* record
C26_TrustedAfterObservedChange ==
    /\ Returned
    /\ Len(returned) = 2
    /\ returned[1] = "false"
    /\ LastReturned = "true"
    /\ path = "skip"
    /\ verified_cache = fcache0
    /\ fcache0[1] \in disagreed
    /\ dest.data # Remote


\* ============================== a chunk file that is complete is left alone
\* download_chunk called for one chunk, or download_parallel with its workers
InitResume == InitChunk \/ InitParallel

SpecResume == InitResume /\ [][NextParallel]_vars

\* the chunk file of chunk i has exactly the size of its range
CompleteOnDisk(i) ==
    part[i].exists /\ Len(part[i].data) = chunk_end(i) - chunk_start(i) + 1

\* C27: a range whose chunk file has exactly the expected size is not asked
\* of the network again.  download_parallel does not submit it: while the
\* other chunks are downloaded its worker does not exist, no request is sent
\* for it and its file stays as it is.  download_chunk called on it fires the
\* progress callback with the full size of the range and returns True, sends
\* no request and leaves the chunk file unchanged
C27_CompleteRangeNotRequested ==
    [][\A i \in Chunks :
          /\ (ppc = "start" /\ CompleteOnDisk(i)) => wpc'[i] = "idle"
          /\ (ppc' \in {"poll", "check"} /\ wpc'[i] = "idle") =>
                 /\ requests'[i] = 0
                 /\ part'[i] = part[i]
                 /\ CompleteOnDisk(i)
          /\ (wpc[i] = "entry" /\ CompleteOnDisk(i)) =>
                 /\ wpc'[i] = "done"
                 /\ wresult'[i] = "true"
                 /\ chunk_progress'[i] = chunk_end(i) - chunk_start(i) + 1
                 /\ requests'[i] = 0
                 /\ part'[i] = part[i]
          /\ (wpc[i] = "done" /\ requests[i] = 0 /\ wresult[i] = "true") =>
                 /\ requests'[i] = 0
                 /\ (mpc = "idle" => part'[i] = part[i])]_vars

\* C27: download_parallel has found chunk i complete and downloads chunk j,
\* for which a request has been sent
C27_Witness ==
    /\ ppc = "poll"
    /\ \E i, j \in Chunks :
          /\ wpc[i] = "idle"
          /\ CompleteOnDisk(i)
          /\ requests[i] = 0
          /\ requests[j] > 0

\* download_chunk was called on a complete chunk file and has returned True
C27_CompleteAtEntry ==
    \E i \in Chunks :
        /\ entry_size[i] = chunk_end(i) - chunk_start(i) + 1
        /\ wpc[i] = "done"
        /\ wresult[i] = "true"
        /\ requests[i] = 0
        /\ CompleteOnDisk(i)


\* =========================================== download_chunk: the status code
\* download_chunk(i) gets the answer to a request in this step
Answered(i) == requests'[i] = requests[i] + 1

\* the answer is a 200 or a 206: the body is about to be streamed
Accepted(i) == Answered(i) /\ wpc'[i] = "stream"

\* the answer has another status (or there is none): the attempt fails
Refused(i) == Answered(i) /\ wpc'[i] # "stream"

\* C28: download_chunk accepts an answer with status 200 (the whole file,
\* the host ignores Range) or 206 (the range) and streams its body into the
\* chunk file, block by block; any other status makes the attempt fail
\* before anything is written: the chunk file and the resume position are
\* what they were, for the next attempt
C28_StatusCheck ==
    [][\A i \in Chunks :
          /\ Accepted(i) =>
                 /\ body'[i] = IF host_range
                               THEN RangeBytes(chunk_start(i) + resume_pos[i],
                                               chunk_end(i))
                               ELSE Remote
                 /\ part'[i].exists
          /\ (wpc[i] = "stream" /\ body'[i] # body[i] /\ wpc'[i] = "stream") =>
                 part'[i].data \o body'[i] = part[i].data \o body[i]
          /\ Refused(i) =>
                 /\ part'[i] = part[i]
                 /\ resume_pos'[i] = resume_pos[i]
                 /\ \/ attempt'[i] = attempt[i] + 1 /\ wpc'[i] = "request"
                    \/ wpc'[i] = "done" /\ wresult'[i] = "false"]_vars

\* C28: the first request of a download_chunk that resumes a partial chunk
\* file was refused; the file is as it was found and the second attempt is
\* about to ask again
C28_Witness ==
    \E i \in Chunks :
        /\ EnteredPartial(i)
        /\ wpc[i] = "request"
        /\ attempt[i] = 1
        /\ requests[i] = 1
        /\ first_req[i] = NoReq
        /\ getsize(part[i]) = entry_size[i]
        /\ resume_pos[i] = entry_size[i]

\* a 200 answer was accepted and the whole file is being streamed into the
\* chunk file of a chunk that does not start at byte 0
C28_Accepted200 ==
    \E i \in Chunks :
        /\ ~host_range
        /\ chunk_start(i) > 0
        /\ wpc[i] = "stream"
        /\ part[i].exists
        /\ part[i].data \o body[i] = Remote


\* ======================================= download_parallel: chunk isolation
\* the locals of the worker of chunk i
WorkerLocals(i) ==
    <<wpc[i], attempt[i], resume_pos[i], downloaded[i], body[i], requests[i]>>

\* the worker of chunk i takes a step of download_chunk
WorkerStep(i) == ppc = "poll" /\ WorkerLocals(i)' # WorkerLocals(i)

\* download_chunk is running for chunk i
Running(i) == wpc[i] \notin {"idle", "done"}

\* C29: under any interleaving of the workers, a step of the worker of chunk
\* i changes no chunk file but .part i and no progress counter but counter i,
\* changes nothing that belongs to the worker of another chunk, and leaves
\* the destination and the temporary file alone; every chunk id is handed to
\* executor.submit at most once, so that no two workers run for the same
\* chunk
C29_ChunkIsolation ==
    [][/\ \A a, b \in 1 .. Len(submitted') :
             a # b => submitted'[a] # submitted'[b]
       /\ ppc' # "start" =>
             {i \in Chunks : wpc'[i] # "idle"}
                = {submitted'[a] : a \in 1 .. Len(submitted')}
       /\ \A i \in Chunks :
             WorkerStep(i) =>
                /\ \A j \in Chunks \ {i} :
                      /\ part'[j] = part[j]
                      /\ chunk_progress'[j] = chunk_progress[j]
                      /\ WorkerLocals(j)' = WorkerLocals(j)
                /\ dest' = dest
                /\ tmp' = tmp]_vars

\* C29: two workers run at the same time, both are streaming, and each has
\* written to its own chunk file
C29_Witness ==
    /\ ppc = "poll"
    /\ Len(submitted) = num_connections
    /\ \A i \in Chunks :
          /\ Running(i)
          /\ wpc[i] = "stream"
          /\ downloaded[i] > 0
          /\ part[i].data # << >>
    /\ part[0].data # part[1].data


\* ================================================ download_unknown_size alone
\* what download_unknown_size can find at the destination path: nothing, the
\* beginning of the file that an interrupted download left, or another file
UnknownFinds ==
    {NoDest, DestFile(SubSeq(Remote, 1, 1), 0), DestFile(Remote \o <<0>>, 0)}

\* one call of download_unknown_size, with the expected hash of the remote
\* file, with the hash of what the remote file was earlier, or without a hash
InitUnknown ==
    /\ remote_len \in 1 .. MaxFileSize
    /\ probe = "chunked"
    /\ host_range = FALSE
    /\ sha_cache = None
    /\ etag = FALSE
    /\ now = 1
    /\ config \in {Config(max_retries, max_retry_delay),
                   Config(max_retries, ShortestCap)}
    /\ faults = UnknownFaults
    /\ fpc = "idle"
    /\ net = NoNet
    /\ expected_sha \in {None, Some(Sha256(Remote)), StaleSha}
    /\ size_probe = Some(-1)
    /\ verified_cache = None
    /\ returned = << >>
    /\ path = "none"
    /\ fdest0 = NoDest
    /\ fcache0 = None
    /\ fverified0 = FALSE
    /\ faults0 = faults
    /\ IdleSingle
    /\ upc = "request"
    /\ u_attempt = 0
    /\ u_body = << >>
    /\ uresult = "none"
    /\ u_requests = 0
    /\ u_slept = << >>
    /\ IdleRest
    /\ file_size = 0
    /\ IdleWorkers([i \in Chunks |-> "idle"])
    /\ part = [i \in Chunks |-> NoFile]
    /\ dest \in UnknownFinds
    /\ IdleMerge
    /\ IdleParallel

\* download_unknown_size runs in the thread of its caller, which nothing
\* suspends for good, and every request carries a timeout (line 771), so a
\* step that is possible is taken in the end
SpecUnknown == InitUnknown /\ [][NextUnknown]_vars /\ WF_vars(NextUnknown)

\* at most max_retries requests; before the attempt that follows failed
\* attempt a the call has slept the delay of download_chunk; while a response
\* is streamed the local file and the rest of the body make up the remote
\* file, from its first byte; False without a hash mismatch means that every
\* attempt has failed
UnknownRetryBounded ==
    /\ u_requests <= config.max_retries
    /\ u_requests <= u_attempt + 1
    /\ u_attempt < config.max_retries
    /\ Len(u_slept) = u_attempt
    /\ \A a \in 1 .. Len(u_slept) : u_slept[a] = ExpectedDelay(a)
    /\ upc = "stream" => (dest.exists /\ dest.data \o u_body = Remote)
    /\ (uresult = "false" /\ expected_sha = None) =>
           (u_requests = config.max_retries /\ u_attempt = config.max_retries - 1)

\* a request that is answered truncates the local file and gets the whole
\* remote file; an exception in the last attempt ends the call with False
\* and without another sleep
UnknownAttempt ==
    /\ (u_requests' = u_requests + 1 /\ upc' = "stream") =>
           (dest' = DestFile(<< >>, now) /\ u_body' = Remote)
    /\ (u_attempt = config.max_retries - 1
           /\ (download_unknown_refused \/ download_unknown_cut)) =>
           (upc' = "done" /\ uresult' = "false" /\ u_slept' = u_slept)

\* C30: download_unknown_size makes at most max_retries attempts, each for
\* the whole file, and sleeps min(retry_delay * 2^attempt, max_retry_delay)
\* seconds between them, as download_chunk does; every attempt whose request
\* is answered truncates the destination and writes from byte 0, none
\* appends to what is there; when the last attempt has failed the call
\* returns False; and the call always returns
C30_UnknownSizeRetries ==
    []UnknownRetryBounded /\ [][UnknownAttempt]_vars /\ <>(upc = "done")

\* C30: all max_retries attempts have failed, the later waits were cut down
\* to max_retry_delay, and what is left at the destination is the beginning
\* of the remote file that the last attempt wrote
C30_Witness ==
    /\ upc = "done"
    /\ uresult = "false"
    /\ u_requests = max_retries
    /\ Len(u_slept) = max_retries - 1
    /\ u_slept[1] = retry_delay
    /\ u_slept[2] = 2 * retry_delay
    /\ u_slept[max_retries - 1] = config.max_retry_delay
    /\ config.max_retry_delay < retry_delay * (2 ^ (max_retries - 2))
    /\ dest.exists
    /\ dest.data # << >>
    /\ dest.data # Remote
    /\ dest.data \o SubSeq(Remote, Len(dest.data) + 1, remote_len) = Remote


\* ======================================================================= C31
\* the step in which thread t leaves a log call
LogEnds(t) == in_call[t] /\ ~in_call'[t] /\ Op(t) = "log"

\* C31: a log call made while a progress line is shown first erases that
\* line, then prints the message and a newline and nothing after it (the
\* progress line is not drawn again), and leaves _active_progress false and
\* _last_progress_len 0; and _last_progress_len > 0 only while
\* _active_progress is true
C31_LogClearsProgressLine ==
    /\ [](last_progress_len > 0 => active_progress)
    /\ [][\A t \in Threads :
            (LogEnds(t) /\ active_progress)
              => /\ stdout' = <<"cr", "blank", "cr", "msg", "nl">>
                 /\ ~active_progress'
                 /\ last_progress_len' = 0]_vars

\* a log call made while a progress line was shown has ended
C31_Witness ==
    /\ stdout = <<"cr", "blank", "cr", "msg", "nl">>
    /\ ~active_progress
    /\ last_progress_len = 0

\* ======================================================================= C32
\* Between two download_file calls the remote file, whose hash is stored, is
\* replaced by another one; the metadata of the new file may carry its hash
\* (what hf_hub_url and get_hf_file_metadata of lines 250-251 answer from
\* then on)
remote_file_changes ==
    /\ fpc = "idle"
    /\ returned # << >>
    /\ Len(returned) < MaxCalls
    /\ sha_cache = Some(Sha256(Remote))
    /\ \E n \in (1 .. MaxFileSize) \ {remote_len}, e \in BOOLEAN :
          /\ remote_len' = n
          /\ etag' = e
    /\ UNCHANGED <<host_range, now, config, probe, planVars, batchVars,
                   consoleVars, uiVars, historyVars, diskVars, nameVars, bundleVars, fileVars, singleVars,
                   unknownVars, workerVars, mergeVars, parallelVars, net,
                   faults, file_size, part>>

\* download_file is called for a file that has no local copy and no chunk
\* files; no hash is cached, or an earlier run cached one
InitHash ==
    /\ Init
    /\ ~dest.exists
    /\ \A i \in Chunks : ~part[i].exists

NextHash ==
    \/ Next
    \/ remote_file_changes

SpecHash == InitHash /\ [][NextHash]_vars

\* the step in which download_file looks the hash up (line 684)
HashLookup == fpc = "idle" /\ fpc' = "local"

\* C32: the hash cache is trust-on-first-lookup. A hash that is stored is
\* never removed or overwritten; a lookup for a key that has a stored hash
\* returns that hash without asking the host, whatever the host reports by
\* then; a lookup that finds no hash stores nothing, and one that finds a
\* hash stores and returns it
C32_TrustOnFirstLookup ==
    [][/\ sha_cache # None => sha_cache' = sha_cache
       /\ (HashLookup /\ sha_cache # None)
             => expected_sha' = sha_cache /\ ~net'.sha
       /\ (HashLookup /\ sha_cache = None /\ ~etag)
             => expected_sha' = None /\ sha_cache' = None
       /\ (HashLookup /\ sha_cache = None /\ etag)
             => /\ expected_sha' = Some(Sha256(Remote))
                /\ sha_cache' = expected_sha'
                /\ net'.sha]_vars

\* the first call stored the hash of the remote file; the remote file was
\* replaced, and the second call has been given the stored hash, which is
\* not the hash of the remote file any more
C32_Witness ==
    /\ Len(returned) = 1
    /\ fpc = "local"
    /\ ~net.sha
    /\ expected_sha # None
    /\ expected_sha # StaleSha
    /\ expected_sha = sha_cache
    /\ expected_sha # Some(Sha256(Remote))
    /\ etag

\* ======================================================================= C33
\* lines 56-64: a downloader is built; each cache is what its file holds, or
\* empty when the file is absent or cannot be parsed. Writing the cache files
\* succeeds or fails throughout the run. The remote file is one that is
\* downloaded in a single stream, the longest one merged by merge_chunks
\* itself, or the longest one; the local file is absent or complete
InitDisk ==
    /\ remote_len \in {1, MERGE_THRESHOLD, MaxFileSize}
    /\ probe \in {"size", "chunked", "none"}
    /\ host_range \in IF probe = "size" THEN BOOLEAN ELSE {FALSE}
    /\ disk \in {"ok", "denied", "full"}
    /\ sha_cache_file \in {json_dump(None), Truncated}
    /\ sha_cache = json_load(sha_cache_file)
    /\ verified_cache_file \in {json_dump(None), Truncated}
    /\ etag = TRUE
    /\ now = 1
    /\ config = Config(ParallelRetries, max_retry_delay)
    /\ faults = IF probe = "size" /\ ~host_range THEN FileFaults - 1
                ELSE FileFaults
    /\ IdleFile
    /\ IdlePlan
    /\ IdleBatch
    /\ IdleConsole
    /\ IdleUi
    /\ disagreed = {}
    /\ IdleNames
    /\ IdleBundle
    /\ file_size = 0
    /\ IdleWorkers([i \in Chunks |-> "idle"])
    /\ part = [i \in Chunks |-> NoFile]
    /\ dest \in {NoDest, DestFile(Remote, 0)}
    /\ IdleMerge
    /\ IdleParallel

SpecDisk == InitDisk /\ [][Next]_vars

\* the step in which get_file_sha256 stores a hash (lines 258-259, 271-272)
StoreStep == HashLookup /\ sha_cache = None /\ etag

\* the step in which mark_file_verified records the file (lines 228-236):
\* the local file was hashed and matched, or a download was verified
MarkStep ==
    /\ expected_sha # None
    /\ \/ /\ fpc = "local"
          /\ path' = "skip"
          /\ ~is_file_verified(verified_cache, dest, expected_sha)
       \/ /\ fpc = "run"
          /\ fpc' = "idle"
          /\ path \in {"parallel", "single"}
          /\ LastReturned' = "true"
       \/ /\ upc = "stream"
          /\ upc' = "done"
          /\ uresult' = "true"

\* C33: the caches are written through. The step that stores a hash or
\* records a verified file puts the new entry into the in-memory cache and
\* completes, whether the file can be written or not; when the write
\* succeeds the cache file then holds exactly the in-memory mapping. No other
\* step changes a cache or its file, so that with a writable disk each file
\* holds its in-memory mapping at all times
C33_WriteThrough ==
    /\ [](disk = "ok" => /\ json_load(sha_cache_file) = sha_cache
                         /\ json_load(verified_cache_file) = verified_cache)
    /\ [][/\ StoreStep
             => /\ sha_cache' = Some(Sha256(Remote))
                /\ expected_sha' = sha_cache'
                /\ disk = "ok" => sha_cache_file' = <<"json", sha_cache'>>
          /\ MarkStep
             => /\ verified_cache' =
                      Some([sha256 |-> expected_sha[1], size |-> getsize(dest'),
                            mtime |-> dest'.mtime])
                /\ disk = "ok"
                     => verified_cache_file' = <<"json", verified_cache'>>
          /\ (sha_cache' # sha_cache \/ sha_cache_file' # sha_cache_file)
             => StoreStep
          /\ (verified_cache' # verified_cache
                \/ verified_cache_file' # verified_cache_file)
             => MarkStep]_vars

\* a download was verified and recorded, and the record is in the file
C33_Witness ==
    /\ disk = "ok"
    /\ Returned
    /\ path \in {"parallel", "single"}
    /\ verified_cache # None
    /\ verified_cache_file = <<"json", verified_cache>>
    /\ sha_cache_file = <<"json", Some(Sha256(Remote))>>

\* the write of the record failed after the file was opened; the call has
\* returned True and the record is in memory only
C33_MemoryOnly ==
    /\ disk = "full"
    /\ Returned
    /\ LastReturned = "true"
    /\ verified_cache # None
    /\ verified_cache_file = Truncated

\* ======================================================================= C34
\* The workers run in threads of the executor and the coordinator in its own;
\* every request carries a timeout (line 485) and the wait of line 919
\* returns after half a second at the latest, so a step that is possible is
\* taken in the end. The longest file and the longest
\* one merged by merge_chunks itself are downloaded to a path that holds no
\* file; an earlier run left no chunk file or complete ones
InitParallelFair ==
    /\ InitParallel
    /\ remote_len \in {MERGE_THRESHOLD, MaxFileSize}
    /\ ~dest.exists
    /\ \A i \in Chunks : part[i].exists => chunk_complete(i)

SpecParallelFair ==
    InitParallelFair /\ [][NextParallel]_vars /\ WF_vars(NextParallel)

\* the download_chunk of every chunk that was submitted has returned
WorkersFinished == \A i \in Chunks : wpc[i] \in {"idle", "done"}

\* C34: download_parallel always returns, True or False. No worker makes
\* more than max_retries requests; the futures are those submitted, a future
\* leaves the dictionary only when its worker has returned and never comes
\* back to it; the coordinator leaves the polling loop only when no future
\* remains, and it checks, merges and decides only when every submitted
\* download_chunk has returned
C34_ParallelTerminates ==
    /\ <>(ppc = "done" /\ presult \in {"true", "false"})
    /\ [](\A i \in Chunks : requests[i] <= config.max_retries)
    /\ []((ppc \in {"check", "merge", "done"} \/ presult # "none")
            => futures = {} /\ WorkersFinished)
    /\ [][ppc = "poll"
            => /\ futures' \subseteq futures
               /\ \A i \in futures \ futures' : wpc[i] = "done"
               /\ ppc' \in {"poll", "check"}
               /\ ppc' = "check" <=> futures' = {}]_vars

\* the call has returned False after one worker used up its attempts while
\* the other completed its chunk
C34_Witness ==
    /\ ppc = "done"
    /\ presult = "false"
    /\ \E i, j \in Chunks :
          /\ wresult[i] = "false"
          /\ requests[i] = config.max_retries
          /\ wresult[j] = "true"
          /\ requests[j] > 0

\* ======================================================================= C35
\* lines 1098-1185: download_file_with_rename is download_file with the
\* destination built from local_filename; the hash lookup, is_file_verified
\* and mark_file_verified are handed remote_filename, the downloads
\* local_filename. The file is saved under its remote name or another one;
\* the remote file is one downloaded in a single stream, the longest one
\* merged by merge_chunks itself, or the longest one; the local file is
\* absent or complete
InitRename ==
    /\ remote_len \in {1, MERGE_THRESHOLD, MaxFileSize}
    /\ probe \in {"size", "chunked", "none"}
    /\ host_range \in IF probe = "size" THEN BOOLEAN ELSE {FALSE}
    /\ sha_cache = None
    /\ etag \in BOOLEAN
    /\ now = 1
    /\ config = Config(ParallelRetries, max_retry_delay)
    /\ faults = IF probe = "size" /\ ~host_range THEN FileFaults - 1
                ELSE FileFaults
    /\ IdleFile
    /\ IdlePlan
    /\ IdleBatch
    /\ IdleConsole
    /\ IdleUi
    /\ IdleHistory
    /\ IdleDisk
    /\ IdleBundle
    /\ local_filename \in LocalNames
    /\ verified_cache_renamed = None
    /\ file_size = 0
    /\ IdleWorkers([i \in Chunks |-> "idle"])
    /\ part = [i \in Chunks |-> NoFile]
    /\ dest \in {NoDest, DestFile(Remote, 0)}
    /\ IdleMerge
    /\ IdleParallel

SpecRename == InitRename /\ [][Next]_vars

\* the record download_file leaves for the file it has verified
RecordOf(f) ==
    Some([sha256 |-> expected_sha[1], size |-> getsize(f), mtime |-> f.mtime])

\* C35, as claimed: whatever name the file is saved under, the cache is keyed
\* by the remote filename: no record is written under another key, a call
\* that returns True with an expected hash leaves the record of its file
\* under the remote filename, as download_file does, and a call that finds
\* the file it verified unchanged trusts the record without hashing the file
\* again
C35_RenameEquivalent ==
    /\ verified_cache_renamed = None
    /\ (Returned /\ LastReturned = "true" /\ expected_sha # None)
          => verified_cache = RecordOf(dest)

\* C35, for a file saved under its remote name: the two functions are the
\* same
C35_SameNameEquivalent ==
    local_filename = remote_filename =>
        /\ verified_cache_renamed = None
        /\ (Returned /\ LastReturned = "true" /\ expected_sha # None)
              => verified_cache = RecordOf(dest)

\* C35, for the downloads of known size: the record is kept under the remote
\* filename
C35_KnownSizeEquivalent ==
    (Returned /\ LastReturned = "true" /\ expected_sha # None
       /\ path \in {"parallel", "single", "skip"})
          => verified_cache = RecordOf(dest)

\* ======================================================================= C36
\* C36, as claimed: when download_unknown_size has returned False, no file is
\* at the destination path
C36_FailedUnknownLeavesNoFile ==
    (upc = "done" /\ uresult = "false") => ~dest.exists

\* C36, what holds: after a hash mismatch no file is at the destination path
C36_MismatchLeavesNoFile ==
    (upc = "done" /\ uresult = "false" /\ expected_sha # None
       /\ u_requests < config.max_retries)
          => ~dest.exists

\* download_unknown_size has returned False after its last attempt was cut
\* off, and a part of the remote file is at the destination path
C36_TruncatedLeft ==
    /\ upc = "done"
    /\ uresult = "false"
    /\ u_requests = config.max_retries
    /\ dest.exists
    /\ 0 < getsize(dest)
    /\ getsize(dest) < remote_len
    /\ dest.data = SubSeq(Remote, 1, getsize(dest))

\* ======================================================================= C37
\* the statuses a download does not leave
Terminal == {"completed", "error", "cancelled"}

\* the changes of status the claim allows: an entry is made as starting (or,
\* by a CivitAI thread, as downloading), a starting download becomes
\* downloading, a downloading one completed or error, and a download that has
\* not ended is cancelled
StatusSteps ==
    {<<"absent", "starting">>, <<"absent", "downloading">>,
     <<"starting", "downloading">>, <<"downloading", "completed">>,
     <<"downloading", "error">>, <<"starting", "cancelled">>,
     <<"downloading", "cancelled">>}

\* C37, as claimed: the status of a download only moves forward, and a status
\* of completed, error or cancelled is never changed by any step of any
\* thread
C37_StatusMonotone ==
    [][\A id \in DownloadIds :
          \/ downloads'[id].status = downloads[id].status
          \/ /\ downloads[id].status \notin Terminal
             /\ <<downloads[id].status, downloads'[id].status>> \in StatusSteps]_vars

\* the part of C37 about the worker alone: a step of a worker thread does not
\* change a status of cancelled
C37_WorkerKeepsCancelled ==
    [][\A id \in DownloadIds :
          (/\ downloads[id].status = "cancelled"
           /\ \E t \in BackgroundThreads :
                 /\ threads[t].id = id
                 /\ threads'[t].pc # threads[t].pc)
             => downloads'[id].status = "cancelled"]_vars

\* ============================================================ bundle downloads
\* (src/ui/model_downloader.py) line 1285, scaled: the worker of a bundle waits
\* for a model for max_wait seconds, in sleeps of 2 seconds
max_wait == 4

\* an entry of bundle['models']: "ok", or "incomplete" (it has no repo_id, or
\* no version_id)
ModelKinds == {"ok", "incomplete"}

\* lines 1220-1257: download_bundle records the bundle download as starting
\* and starts its worker thread
download_bundle ==
    /\ bundle_worker.pc = "none"
    /\ bundle.source = "hf"
    /\ download_lock = NoThread
    /\ bundle_downloads' = [status |-> "starting",
                            total_models |-> Len(bundle.models),
                            completed_models |-> 0, failed_models |-> 0,
                            current_model |-> None]
    /\ bundle_worker' = [bundle_worker EXCEPT !.pc = "start"]
    /\ UNCHANGED <<bundle, uiVars>>

\* lines 1511-1521 and 1584-1585: download_civitai_bundle starts its thread;
\* the entry is made by the thread
download_civitai_bundle ==
    /\ bundle_worker.pc = "none"
    /\ bundle.source = "civitai"
    /\ bundle_worker' = [bundle_worker EXCEPT !.pc = "start"]
    /\ UNCHANGED <<bundle, bundle_downloads, uiVars>>

\* lines 1262-1263 (_download_bundle_worker) and 1525-1536
\* (download_bundle_thread): the thread marks the bundle download as
\* downloading, the latter by making the entry
bundle_begins ==
    /\ bundle_worker.pc = "start"
    /\ download_lock = NoThread
    /\ bundle_downloads' =
          IF bundle.source = "hf"
          THEN [bundle_downloads EXCEPT !.status = "downloading"]
          ELSE [status |-> "downloading",
                total_models |-> Len(bundle.models),
                completed_models |-> 0, failed_models |-> 0,
                current_model |-> None]
    /\ bundle_worker' = [bundle_worker EXCEPT !.pc = "model", !.i = 1]
    /\ UNCHANGED <<bundle, uiVars>>

\* lines 1317-1319 and 1574-1576: the loop over the models has ended
bundle_completes ==
    /\ bundle_worker.pc = "model"
    /\ bundle_worker.i > Len(bundle.models)
    /\ download_lock = NoThread
    /\ bundle_downloads' = [bundle_downloads EXCEPT !.status = "completed",
                                                    !.current_model = None]
    /\ bundle_worker' = [bundle_worker EXCEPT !.pc = "done"]
    /\ UNCHANGED <<bundle, uiVars>>

\* lines 1268-1286: _download_bundle_worker comes to the next model, records
\* it as the current one and calls download_model (lines 1083-1104), which
\* makes the entry of the download and starts its thread. An entry without
\* repo_id raises KeyError at line 1271, outside the inner try: lines
\* 1321-1324 set the status of the bundle download to error
bundle_next_model ==
    /\ bundle_worker.pc = "model"
    /\ bundle.source = "hf"
    /\ bundle_worker.i <= Len(bundle.models)
    /\ download_lock = NoThread
    /\ IF bundle.models[bundle_worker.i] = "incomplete"
       THEN /\ bundle_downloads' = [bundle_downloads EXCEPT
                                       !.status = "error"]
            /\ bundle_worker' = [bundle_worker EXCEPT !.pc = "done"]
            /\ UNCHANGED uiVars
       ELSE /\ bundle_downloads' = [bundle_downloads EXCEPT
                                       !.current_model = Some(bundle_worker.i)]
            /\ \E t \in IdleThreads :
                  LET id == ModelId(bundle.source, bundle_worker.i)
                  IN /\ downloads' = [downloads EXCEPT ![id] =
                                         [status |-> "starting",
                                          progress |-> 0, error |-> None]]
                     /\ set_error' = [set_error EXCEPT ![id] = FALSE]
                     /\ threads' = [threads EXCEPT ![t] =
                                       [id |-> id, pc |-> "start"]]
                     /\ bundle_worker' = [bundle_worker EXCEPT
                                             !.pc = "wait",
                                             !.download_id = id,
                                             !.wait_time = 0]
            /\ UNCHANGED <<download_lock, polled>>
    /\ UNCHANGED bundle

\* lines 1538-1551: download_bundle_thread comes to the next model, records
\* it as the current one and, when the entry has a version_id, calls
\* download_civitai_model (lines 1457 and 1495-1497), which starts the thread
\* of the download
civitai_bundle_next_model ==
    /\ bundle_worker.pc = "model"
    /\ bundle.source = "civitai"
    /\ bundle_worker.i <= Len(bundle.models)
    /\ download_lock = NoThread
    /\ bundle_downloads' = [bundle_downloads EXCEPT
                               !.current_model = Some(bundle_worker.i)]
    /\ IF bundle.models[bundle_worker.i] = "incomplete"
       THEN /\ bundle_worker' = [bundle_worker EXCEPT !.i = @ + 1]
            /\ UNCHANGED threads
       ELSE \E t \in IdleThreads :
               LET id == ModelId(bundle.source, bundle_worker.i)
               IN /\ threads' = [threads EXCEPT ![t] =
                                    [id |-> id, pc |-> "start"]]
                  /\ bundle_worker' = [bundle_worker EXCEPT
                                          !.pc = "wait", !.download_id = id]
    /\ UNCHANGED <<bundle, downloads, download_lock, polled, set_error>>

\* lines 1287-1297 and 1304-1314: one turn of the wait loop of
\* _download_bundle_worker: it sleeps, adds the 2 seconds to wait_time and
\* reads the status of the download. "completed" leaves the loop; "error"
\* raises, and the inner except records the model as failed and goes on to
\* the next model; any other status goes on waiting, until wait_time has
\* reached max_wait
bundle_polls ==
    /\ bundle_worker.pc = "wait"
    /\ bundle.source = "hf"
    /\ bundle_worker.wait_time < max_wait
    /\ download_lock = NoThread
    /\ LET id == bundle_worker.download_id
           status == downloads[id].status
           waited == bundle_worker.wait_time + 2
       IN IF id \in Entries /\ status = "completed"
          THEN /\ bundle_worker' = [bundle_worker EXCEPT
                                       !.pc = "count", !.wait_time = waited]
               /\ UNCHANGED bundle_downloads
          ELSE IF id \in Entries /\ status = "error"
          THEN /\ bundle_worker' = [bundle_worker EXCEPT
                                       !.pc = "model", !.i = @ + 1,
                                       !.wait_time = waited]
               /\ bundle_downloads' = [bundle_downloads EXCEPT
                                          !.failed_models = @ + 1]
          ELSE /\ bundle_worker' = [bundle_worker EXCEPT
                                       !.pc = IF waited < max_wait
                                              THEN "wait" ELSE "count",
                                       !.wait_time = waited]
               /\ UNCHANGED bundle_downloads
    /\ UNCHANGED <<bundle, uiVars>>

\* lines 1299-1302: after the wait loop, however it has ended,
\* _download_bundle_worker sets completed_models to i + 1 (i counts from 0)
bundle_counts ==
    /\ bundle_worker.pc = "count"
    /\ download_lock = NoThread
    /\ bundle_downloads' = [bundle_downloads EXCEPT
                               !.completed_models = bundle_worker.i]
    /\ bundle_worker' = [bundle_worker EXCEPT !.pc = "model", !.i = @ + 1]
    /\ UNCHANGED <<bundle, uiVars>>

\* lines 1554-1566: one turn of the wait loop of download_bundle_thread: it
\* sleeps and reads the status of the download; "completed" and "error" are
\* counted and leave the loop, any other status goes on waiting
civitai_bundle_polls ==
    /\ bundle_worker.pc = "wait"
    /\ bundle.source = "civitai"
    /\ download_lock = NoThread
    /\ LET id == bundle_worker.download_id
           status == downloads[id].status
       IN IF id \in Entries /\ status = "completed"
          THEN /\ bundle_downloads' = [bundle_downloads EXCEPT
                                          !.completed_models = @ + 1]
               /\ bundle_worker' = [bundle_worker EXCEPT
                                       !.pc = "model", !.i = @ + 1]
          ELSE IF id \in Entries /\ status = "error"
          THEN /\ bundle_downloads' = [bundle_downloads EXCEPT
                                          !.failed_models = @ + 1]
               /\ bundle_worker' = [bundle_worker EXCEPT
                                       !.pc = "model", !.i = @ + 1]
          ELSE UNCHANGED <<bundle_downloads, bundle_worker>>
    /\ UNCHANGED <<bundle, uiVars>>

notBundleVars == <<hostVars, planVars, batchVars, consoleVars, historyVars,
                   diskVars, nameVars, fileVars, singleVars, unknownVars,
                   workerVars, mergeVars, parallelVars, net, faults,
                   file_size, part>>

\* a bundle of either source with 1 to MaxModels models
InitBundle ==
    /\ IdleDownloader
    /\ IdlePlan
    /\ IdleBatch
    /\ IdleConsole
    /\ IdleUi
    /\ IdleHistory
    /\ IdleDisk
    /\ local_filename = remote_filename
    /\ verified_cache_renamed = None
    /\ file_size = 0
    /\ bundle \in [source : {"hf", "civitai"},
                   models : UNION {[1 .. n -> ModelKinds] :
                                      n \in 1 .. MaxModels}]
    /\ bundle_downloads = NoBundle
    /\ bundle_worker = [pc |-> "none", i |-> 0, download_id |-> 0,
                        wait_time |-> 0]

\* a step of the thread of the bundle
BundleStep ==
    /\ UNCHANGED notBundleVars
    /\ \/ bundle_begins
       \/ bundle_next_model
       \/ civitai_bundle_next_model
       \/ bundle_polls
       \/ bundle_counts
       \/ civitai_bundle_polls
       \/ bundle_completes

\* a step of the thread of a download that brings the download nearer to
\* its end
DownloadStep(t) ==
    /\ UNCHANGED notUiVars
    /\ \/ thread_begins(t)
       \/ thread_completes(t)
       \/ thread_completed(t)
       \/ thread_fails(t)
       \/ thread_failed(t)

NextBundle ==
    \/ UNCHANGED notBundleVars /\ download_bundle
    \/ UNCHANGED notBundleVars /\ download_civitai_bundle
    \/ BundleStep
    \/ \E t \in BackgroundThreads : DownloadStep(t)
    \/ UNCHANGED notUiVars /\ \E t \in BackgroundThreads : progress_update(t)
    \/ UNCHANGED notUiVars /\ cancel_download

\* every thread that has been started keeps running: the thread of the
\* bundle, and the thread of each download until the download has ended
SpecBundle ==
    /\ InitBundle
    /\ [][NextBundle]_vars
    /\ WF_vars(BundleStep)
    /\ \A t \in BackgroundThreads : WF_vars(DownloadStep(t))

\* the bundle download has ended
BundleEnded == bundle_downloads.status \in {"completed", "error"}

\* C38: every bundle download that has been started, of either source, ends
\* with the status completed or error, and the wait for a model always
\* comes to an end, when every thread keeps running and whatever
\* cancel_download calls come in between
C38_BundleTerminates ==
    /\ (bundle_worker.pc = "start") ~> BundleEnded
    /\ (bundle_worker.pc = "wait") ~> (bundle_worker.pc # "wait")

\* C38, for the bundles of _download_bundle_worker alone: the wait loop is
\* bounded by max_wait and the bundle download ends
C38_HfBundleTerminates ==
    /\ (bundle_worker.pc = "start" /\ bundle.source = "hf") ~> BundleEnded
    /\ (bundle_worker.pc = "wait" /\ bundle.source = "hf")
          ~> (bundle_worker.pc # "wait")

\* C38: the download of a model of a CivitAI bundle has ended and its entry
\* says cancelled, while the thread of the bundle waits for it
C38_WaitsForCancelled ==
    /\ bundle.source = "civitai"
    /\ bundle_worker.pc = "wait"
    /\ downloads[bundle_worker.download_id].status = "cancelled"
    /\ \E t \in BackgroundThreads :
          /\ threads[t].id = bundle_worker.download_id
          /\ threads[t].pc = "done"

\* the download with this id has reached the status completed: its thread
\* has set it
ReachedCompleted(id) ==
    \E t \in BackgroundThreads :
       /\ threads[t].id = id
       /\ threads[t].pc \in {"completed", "done"}
       /\ ~set_error[id]

\* the models of the bundle whose download has reached the status completed
CompletedModels ==
    {i \in 1 .. Len(bundle.models) : ReachedCompleted(ModelId(bundle.source, i))}

\* C39: in a bundle download of _download_bundle_worker, completed_models
\* counts no model whose download has not reached the status completed: it
\* is never more than the number of the models whose download has, and
\* never more than total_models
C39_CompletedModelsCount ==
    bundle.source = "hf" =>
       /\ bundle_downloads.completed_models <= Cardinality(CompletedModels)
       /\ bundle_downloads.completed_models <= bundle_downloads.total_models

\* C39: completed_models is never more than total_models
C39_NeverExceedsTotal ==
    bundle_downloads.completed_models <= bundle_downloads.total_models

\* C39: the download of the first model has failed, the download of the
\* second has been completed, and completed_models is 2
C39_FailedModelCounted ==
    /\ bundle.source = "hf"
    /\ Len(bundle.models) = 2
    /\ set_error[ModelId(bundle.source, 1)]
    /\ CompletedModels = {2}
    /\ bundle_downloads.completed_models = 2

\* a call of download_model or download_civitai_model: a thread is started
CallStep(t) == threads[t].pc = "none" /\ threads'[t].pc = "start"

\* C40: the download id of a download_model or download_civitai_model call
\* is not a key of downloads when the call makes it, and no other thread
\* works for it
C40_OwnTrackingEntry ==
    [][\A t \in BackgroundThreads :
          CallStep(t) =>
             /\ threads'[t].id \notin Entries
             /\ \A o \in BackgroundThreads \ {t} :
                   threads[o].id # threads'[t].id]_vars

\* C40: two threads are downloading for the same download id
C40_SharedEntry ==
    \E t, o \in BackgroundThreads :
       /\ t # o
       /\ threads[t].id = threads[o].id
       /\ threads[t].pc = "run"
       /\ threads[o].pc = "run"

====
